---- MODULE Spec2Model ----
(***************************************************************************)
(* Model of the fuzzy string-matching engine UREFuzzy (REFuzzy.cpp) and of *)
(* the normalizer URENormalizer it calls.                                  *)
(*                                                                         *)
(* Characters (TCHAR) are their code points, strings (FString) are         *)
(* sequences of code points.  float values are modelled as exact numbers   *)
(* (reduced fractions, and square roots of fractions for the cosine), so   *)
(* binary rounding is not modelled.                                        *)
(***************************************************************************)
EXTENDS Integers, Sequences, FiniteSets, TLC

\* ------------------------------------------------------------------------
\* Bounds of the model
\* ------------------------------------------------------------------------
\* longest first argument A of a comparison
MaxLenA == 2
\* longest second argument B of a comparison
MaxLenB == 3

\* 'a', 'b', 'A', ' '
Alphabet == {97, 98, 65, 32}

RECURSIVE StringsUpTo(_)
StringsUpTo(n) ==
    IF n = 0 THEN {<<>>}
    ELSE LET S == StringsUpTo(n - 1)
         IN  S \cup {Append(s, c) : s \in {t \in S : Len(t) = n - 1}, c \in Alphabet}

StringsA == StringsUpTo(MaxLenA)
\* "   a" and "aaab": longer second arguments, which with a one-character
\* first argument take CalculateDamerauLevenshtein outside its matrix
LongStrings == {<<32, 32, 32, 97>>, <<97, 97, 97, 98>>}
StringsB == StringsUpTo(MaxLenB) \cup LongStrings

\* ------------------------------------------------------------------------
\* Arithmetic helpers
\* ------------------------------------------------------------------------
Min2(x, y) == IF x <= y THEN x ELSE y
Max2(x, y) == IF x >= y THEN x ELSE y
Abs(x) == IF x < 0 THEN 0 - x ELSE x

RECURSIVE GCD(_, _)
GCD(x, y) == IF y = 0 THEN x ELSE GCD(y, x % y)

\* largest r with r * r <= n
RECURSIVE ISqrtIn(_, _, _)
ISqrtIn(n, lo, hi) ==
    IF hi - lo <= 1 THEN lo
    ELSE LET mid == (lo + hi) \div 2
         IN  IF mid * mid <= n THEN ISqrtIn(n, mid, hi) ELSE ISqrtIn(n, lo, mid)
ISqrt(n) == ISqrtIn(n, 0, Min2(n, 46340) + 1)
IsSquare(n) == ISqrt(n) * ISqrt(n) = n

\* A float value: [n, d, root] stands for n/d, or for sqrt(n/d) when root.
\* n/d is reduced, d > 0; a root whose radicand is a square of a fraction is
\* stored as that fraction, so equal values have equal representations.
Rat(n, d) ==
    LET s == IF d < 0 THEN 0 - 1 ELSE 1
        g == GCD(Abs(n), Abs(d))
    IN  [n |-> (s * n) \div g, d |-> (s * d) \div g, root |-> FALSE]

Root(n, d) ==
    LET q == Rat(n, d)
    IN  IF IsSquare(q.n) /\ IsSquare(q.d)
        THEN [n |-> ISqrt(q.n), d |-> ISqrt(q.d), root |-> FALSE]
        ELSE [n |-> q.n, d |-> q.d, root |-> TRUE]

Zero == Rat(0, 1)
One == Rat(1, 1)

RAdd(x, y) == Rat(x.n * y.d + y.n * x.d, x.d * y.d)
RSub(x, y) == Rat(x.n * y.d - y.n * x.d, x.d * y.d)
RMul(x, y) == Rat(x.n * y.n, x.d * y.d)
RDiv(x, y) == Rat(x.n * y.d, x.d * y.n)

\* x <= y
RLe(x, y) ==
    CASE ~x.root /\ ~y.root -> x.n * y.d <= y.n * x.d
      [] x.root /\ y.root   -> x.n * y.d <= y.n * x.d
      [] ~x.root /\ y.root  -> x.n < 0 \/ x.n * x.n * y.d <= y.n * x.d * x.d
      [] x.root /\ ~y.root  -> y.n >= 0 /\ x.n * y.d * y.d <= y.n * y.n * x.d
RLt(x, y) == ~RLe(y, x)
RMax(x, y) == IF RLe(y, x) THEN x ELSE y
RMin(x, y) == IF RLe(x, y) THEN x ELSE y

\* the non-finite results of a float division by zero
NaN == [n |-> 0, d |-> 0, root |-> FALSE]
PosInf == [n |-> 1, d |-> 0, root |-> FALSE]
NegInf == [n |-> 0 - 1, d |-> 0, root |-> FALSE]
IsFinite(x) == x.d # 0

\* (float)n / d for integers n, d
FloatDiv(n, d) ==
    IF d # 0 THEN Rat(n, d)
    ELSE IF n = 0 THEN NaN ELSE IF n > 0 THEN PosInf ELSE NegInf

\* 1.0f - x
OneMinus(x) ==
    IF IsFinite(x) THEN RSub(One, x)
    ELSE IF x = NaN THEN NaN ELSE IF x = PosInf THEN NegInf ELSE PosInf

InUnit(x) == IsFinite(x) /\ RLe(Zero, x) /\ RLe(x, One)

\* ------------------------------------------------------------------------
\* FChar / FString library functions
\* ------------------------------------------------------------------------
ToLowerChar(c) == IF c >= 65 /\ c <= 90 THEN c + 32 ELSE c
ToUpperChar(c) == IF c >= 97 /\ c <= 122 THEN c - 32 ELSE c
IsWhitespace(c) == c \in {9, 10, 11, 12, 13, 32}
IsAlpha(c) == (c >= 65 /\ c <= 90) \/ (c >= 97 /\ c <= 122)

ToLower(s) == [i \in 1..Len(s) |-> ToLowerChar(s[i])]
ToUpper(s) == [i \in 1..Len(s) |-> ToUpperChar(s[i])]

RECURSIVE TrimStart(_)
TrimStart(s) ==
    IF s # <<>> /\ IsWhitespace(Head(s)) THEN TrimStart(Tail(s)) ELSE s

RECURSIVE TrimEnd(_)
TrimEnd(s) ==
    IF s # <<>> /\ IsWhitespace(s[Len(s)])
    THEN TrimEnd(SubSeq(s, 1, Len(s) - 1)) ELSE s

TrimStartAndEnd(s) == TrimEnd(TrimStart(s))

\* FString::Mid(Start, Count), Start 0-based
Mid(s, start, count) == SubSeq(s, start + 1, start + count)

\* ------------------------------------------------------------------------
\* URENormalizer
\* ------------------------------------------------------------------------
RemoveAccentFromChar(c) ==
    CASE c >= 224 /\ c <= 230 -> 97
      [] c = 231 -> 99
      [] c >= 232 /\ c <= 235 -> 101
      [] c >= 236 /\ c <= 239 -> 105
      [] c = 241 -> 110
      [] (c >= 242 /\ c <= 246) \/ c = 248 -> 111
      [] c >= 249 /\ c <= 252 -> 117
      [] c = 253 \/ c = 255 -> 121
      [] c >= 192 /\ c <= 198 -> 65
      [] c = 199 -> 67
      [] c >= 200 /\ c <= 203 -> 69
      [] c >= 204 /\ c <= 207 -> 73
      [] c = 209 -> 78
      [] (c >= 210 /\ c <= 214) \/ c = 216 -> 79
      [] c >= 217 /\ c <= 220 -> 85
      [] c = 221 \/ c = 376 -> 89
      [] OTHER -> c

RemoveAccents(s) == [i \in 1..Len(s) |-> RemoveAccentFromChar(s[i])]

RECURSIVE CollapseFrom(_, _, _)
CollapseFrom(s, acc, bLastWasSpace) ==
    IF s = <<>> THEN acc
    ELSE IF IsWhitespace(Head(s))
         THEN CollapseFrom(Tail(s),
                           IF bLastWasSpace THEN acc ELSE Append(acc, 32), TRUE)
         ELSE CollapseFrom(Tail(s), Append(acc, Head(s)), FALSE)

CollapseWhitespace(s) == CollapseFrom(s, <<>>, FALSE)

\* NormalizeWithConfig under GetDefaultConfig(): accents, lowercase, trim,
\* collapse; punctuation and digits are kept
Normalize(Text) ==
    IF Text = <<>> THEN Text
    ELSE CollapseWhitespace(TrimStartAndEnd(ToLower(RemoveAccents(Text))))

PrepareString(Input, bNormalize) ==
    IF bNormalize THEN Normalize(Input) ELSE Input

\* ------------------------------------------------------------------------
\* Edit-distance family
\* ------------------------------------------------------------------------
\* mutant of LevFill: equal characters cost a substitution too
RECURSIVE LevFill_AlwaysCost(_, _, _, _, _)
LevFill_AlwaysCost(D, A, B, i, j) ==
    IF i > Len(A) THEN D
    ELSE IF j > Len(B) THEN LevFill_AlwaysCost(D, A, B, i + 1, 1)
    ELSE LET v == Min2(Min2(D[i - 1][j] + 1, D[i][j - 1] + 1), D[i - 1][j - 1] + 1)
         IN  LevFill_AlwaysCost([D EXCEPT ![i][j] = v], A, B, i, j + 1)

\* Algo::LevenshteinDistance: the classic three-operation dynamic program
RECURSIVE LevFill(_, _, _, _, _)
LevFill(D, A, B, i, j) ==
    IF i > Len(A) THEN D
    ELSE IF j > Len(B) THEN LevFill(D, A, B, i + 1, 1)
    ELSE LET Cost == IF A[i] = B[j] THEN 0 ELSE 1
             v == Min2(Min2(D[i - 1][j] + 1, D[i][j - 1] + 1), D[i - 1][j - 1] + Cost)
         IN  LevFill([D EXCEPT ![i][j] = v], A, B, i, j + 1)

CalculateLevenshtein(A, B) ==
    LET D0 == [i \in 0..Len(A) |-> [j \in 0..Len(B) |-> IF i = 0 THEN j ELSE IF j = 0 THEN i ELSE 0]]
    IN  LevFill(D0, A, B, 1, 1)[Len(A)][Len(B)]

\* What a read of H[K][DB] with K past the last row of H yields in a build
\* without range checks: some int32 of the memory behind the array.  (A build
\* with range checks stops in TArray's RangeCheck instead.)
VARIABLE OutOfRangeValue
OutOfRangeValues == {-7, 7}

\* for (M = 1; M <= LenA; M++) if (A[M-1] == B[j-1]) { K = M; break; }
\* K keeps its initial value DB when no character of A equals ch
FirstMatchRow(A, ch, DB) ==
    IF \E M \in 1..Len(A) : A[M] = ch
    THEN CHOOSE M \in 1..Len(A) : A[M] = ch /\ \A M2 \in 1..(M - 1) : A[M2] # ch
    ELSE DB

\* H after SetNum (int32 elements are zero-filled) and the two seeding loops
DLInitMatrix(LenA, LenB) ==
    [r \in 0..(LenA + 1) |-> [c \in 0..(LenB + 1) |->
        IF r = 0 \/ c = 0 THEN LenA + LenB
        ELSE IF c = 1 THEN r - 1
        ELSE IF r = 1 THEN c - 1
        ELSE 0]]

\* the double loop of CalculateDamerauLevenshtein; DBin is DB on entry to
\* the iteration (i, j)
RECURSIVE DLFill(_, _, _, _, _, _)
DLFill(H, A, B, i, j, DBin) ==
    IF i > Len(A) THEN H
    ELSE IF j > Len(B) THEN DLFill(H, A, B, i + 1, 1, 0)
    ELSE LET match == A[i] = B[j]
             DB == IF match THEN j ELSE DBin
             L == IF match THEN 0 ELSE 1
             K == FirstMatchRow(A, B[j], DBin)
             HKDB == IF K \in DOMAIN H THEN H[K][DB] ELSE OutOfRangeValue
             v == Min2(Min2(Min2(H[i][j] + L, H[i + 1][j] + 1), H[i][j + 1] + 1),
                       HKDB + (i - K - 1) + 1 + (j - DB - 1))
         IN  DLFill([H EXCEPT ![i + 1][j + 1] = v], A, B, i, j + 1, DB)

\* whether CalculateDamerauLevenshtein(A, B) reads H[K] with K > LenA + 1
RECURSIVE DLOutOfRangeFrom(_, _, _, _, _)
DLOutOfRangeFrom(A, B, i, j, DBin) ==
    IF i > Len(A) THEN FALSE
    ELSE IF j > Len(B) THEN DLOutOfRangeFrom(A, B, i + 1, 1, 0)
    ELSE \/ FirstMatchRow(A, B[j], DBin) > Len(A) + 1
         \/ DLOutOfRangeFrom(A, B, i, j + 1, IF A[i] = B[j] THEN j ELSE DBin)

DLReadsOutOfRange(A, B) == A # <<>> /\ B # <<>> /\ DLOutOfRangeFrom(A, B, 1, 1, 0)

CalculateDamerauLevenshtein(A, B) ==
    IF Len(A) = 0 THEN Len(B)
    ELSE IF Len(B) = 0 THEN Len(A)
    ELSE DLFill(DLInitMatrix(Len(A), Len(B)), A, B, 1, 1, 0)[Len(A) + 1][Len(B) + 1]

RECURSIVE OAFill(_, _, _, _, _)
OAFill(D, A, B, i, j) ==
    IF i > Len(A) THEN D
    ELSE IF j > Len(B) THEN OAFill(D, A, B, i + 1, 1)
    ELSE LET Cost == IF A[i] = B[j] THEN 0 ELSE 1
             v == Min2(Min2(D[i - 1][j] + 1, D[i][j - 1] + 1), D[i - 1][j - 1] + Cost)
             w == IF i > 1 /\ j > 1 /\ A[i] = B[j - 1] /\ A[i - 1] = B[j]
                  THEN Min2(v, D[i - 2][j - 2] + Cost) ELSE v
         IN  OAFill([D EXCEPT ![i][j] = w], A, B, i, j + 1)

\* mutant of CalculateOptimalAlignment: no swap of adjacent characters
CalculateOptimalAlignment_NoSwap(A, B) == CalculateLevenshtein(A, B)

CalculateOptimalAlignment(A, B) ==
    IF Len(A) = 0 THEN Len(B)
    ELSE IF Len(B) = 0 THEN Len(A)
    ELSE LET D0 == [i \in 0..Len(A) |-> [j \in 0..Len(B) |->
                       IF i = 0 THEN j ELSE IF j = 0 THEN i ELSE 0]]
         IN  OAFill(D0, A, B, 1, 1)[Len(A)][Len(B)]

\* mutant of CalculateHamming: no length check, the shorter length is compared
CalculateHamming_NoSentinel(A, B) ==
    Cardinality({i \in 1..Min2(Len(A), Len(B)) : A[i] # B[i]})

CalculateHamming(A, B) ==
    IF Len(A) # Len(B) THEN 0 - 1
    ELSE Cardinality({i \in 1..Len(A) : A[i] # B[i]})

\* ------------------------------------------------------------------------
\* Subsequence family
\* ------------------------------------------------------------------------
RECURSIVE LCSFill(_, _, _, _, _)
LCSFill(T, A, B, i, j) ==
    IF i > Len(A) THEN T
    ELSE IF j > Len(B) THEN LCSFill(T, A, B, i + 1, 1)
    ELSE LET v == IF A[i] = B[j] THEN T[i - 1][j - 1] + 1
                  ELSE Max2(T[i - 1][j], T[i][j - 1])
         IN  LCSFill([T EXCEPT ![i][j] = v], A, B, i, j + 1)

CalculateLCS(A, B) ==
    IF Len(A) = 0 \/ Len(B) = 0 THEN 0
    ELSE LET T0 == [i \in 0..Len(A) |-> [j \in 0..Len(B) |-> 0]]
         IN  LCSFill(T0, A, B, 1, 1)[Len(A)][Len(B)]

\* LCSuff[i][j]: length of the common suffix of A[0..i) and B[0..j)
RECURSIVE LCSuff(_, _, _, _)
LCSuff(A, B, i, j) ==
    IF i = 0 \/ j = 0 THEN 0
    ELSE IF A[i] = B[j] THEN LCSuff(A, B, i - 1, j - 1) + 1 ELSE 0

SetMax(S) ==
    IF S = {} THEN 0
    ELSE LET x == CHOOSE y \in S : \A z \in S : z <= y IN x

CalculateLCSS(A, B) ==
    IF Len(A) = 0 \/ Len(B) = 0 THEN 0
    ELSE SetMax({LCSuff(A, B, i, j) : i \in 1..Len(A), j \in 1..Len(B)})

\* ------------------------------------------------------------------------
\* Alignment-similarity family
\* ------------------------------------------------------------------------
\* The "find matches" loop of CalculateJaro from row i on.  MA and MB are the
\* sets of (1-based) positions already flagged in MatchesA and MatchesB.
\* mutant of JaroMatch: the window of row i starts at i instead of i - W
RECURSIVE JaroMatch_ForwardOnly(_, _, _, _, _, _)
JaroMatch_ForwardOnly(A, B, W, i, MA, MB) ==
    IF i > Len(A) THEN [MatchesA |-> MA, MatchesB |-> MB]
    ELSE LET Start == i
             End == Min2(i + W, Len(B))
             C == {j \in Start..End : j \notin MB /\ A[i] = B[j]}
         IN  IF C = {} THEN JaroMatch_ForwardOnly(A, B, W, i + 1, MA, MB)
             ELSE LET j == CHOOSE x \in C : \A y \in C : x <= y
                  IN  JaroMatch_ForwardOnly(A, B, W, i + 1, MA \cup {i}, MB \cup {j})

RECURSIVE JaroMatch(_, _, _, _, _, _)
JaroMatch(A, B, W, i, MA, MB) ==
    IF i > Len(A) THEN [MatchesA |-> MA, MatchesB |-> MB]
    ELSE LET Start == Max2(1, i - W)
             End == Min2(i + W, Len(B))
             C == {j \in Start..End : j \notin MB /\ A[i] = B[j]}
         IN  IF C = {} THEN JaroMatch(A, B, W, i + 1, MA, MB)
             ELSE LET j == CHOOSE x \in C : \A y \in C : x <= y
                  IN  JaroMatch(A, B, W, i + 1, MA \cup {i}, MB \cup {j})

\* the characters of s at the positions of P, in increasing position order
RECURSIVE Pick(_, _, _)
Pick(s, P, i) ==
    IF i > Len(s) THEN <<>>
    ELSE IF i \in P THEN <<s[i]>> \o Pick(s, P, i + 1) ELSE Pick(s, P, i + 1)

CalculateJaro(A, B) ==
    IF A = <<>> \/ B = <<>> THEN Zero
    ELSE IF A = B THEN One
    ELSE LET LenA == Len(A)
             LenB == Len(B)
             W0 == (Max2(LenA, LenB) \div 2) - 1
             MatchWindow == IF W0 < 1 THEN 1 ELSE W0
             M == JaroMatch(A, B, MatchWindow, 1, {}, {})
             Matches == Cardinality(M.MatchesA)
             SA == Pick(A, M.MatchesA, 1)
             SB == Pick(B, M.MatchesB, 1)
             Transpositions == Cardinality({k \in 1..Matches : SA[k] # SB[k]})
         IN  IF Matches = 0 THEN Zero
             ELSE RDiv(RAdd(RAdd(Rat(Matches, LenA), Rat(Matches, LenB)),
                            Rat(Matches - (Transpositions \div 2), Matches)),
                       Rat(3, 1))

RECURSIVE CommonPrefixFrom(_, _, _, _)
CommonPrefixFrom(A, B, i, MaxPrefix) ==
    IF i > MaxPrefix THEN 0
    ELSE IF A[i] = B[i] THEN 1 + CommonPrefixFrom(A, B, i + 1, MaxPrefix) ELSE 0

\* mutant of CalculateJaroWinkler: the common prefix is not capped at 4
CalculateJaroWinkler_NoCap(A, B, PrefixScale) ==
    LET JaroSim == CalculateJaro(A, B)
    IN  IF RLt(JaroSim, Rat(7, 10)) THEN JaroSim
        ELSE LET MaxPrefix == Min2(Len(A), Len(B))
                 PrefixLen == CommonPrefixFrom(A, B, 1, MaxPrefix)
             IN  RAdd(JaroSim, RMul(RMul(Rat(PrefixLen, 1), PrefixScale),
                                    RSub(One, JaroSim)))

CalculateJaroWinkler(A, B, PrefixScale) ==
    LET JaroSim == CalculateJaro(A, B)
    IN  IF RLt(JaroSim, Rat(7, 10)) THEN JaroSim
        ELSE LET MaxPrefix == Min2(Min2(Len(A), Len(B)), 4)
                 PrefixLen == CommonPrefixFrom(A, B, 1, MaxPrefix)
             IN  RAdd(JaroSim, RMul(RMul(Rat(PrefixLen, 1), PrefixScale),
                                    RSub(One, JaroSim)))

\* default argument of CalculateJaroWinkler
DefaultPrefixScale == Rat(1, 10)

\* ------------------------------------------------------------------------
\* N-gram family
\* ------------------------------------------------------------------------
RECURSIVE SumOver(_, _)
SumOver(f, S) ==
    IF S = {} THEN 0
    ELSE LET x == CHOOSE y \in S : TRUE IN f[x] + SumOver(f, S \ {x})

\* mutant of GenerateNGrams: the loop stops one gram early (i < Len - N)
GenerateNGrams_StopsEarly(Source, N) ==
    IF Len(Source) < N
    THEN [Grams |-> [g \in {Source} |-> 1], TotalGrams |-> 1]
    ELSE LET Starts == 0..(Len(Source) - N - 1)
             Keys == {Mid(Source, i, N) : i \in Starts}
         IN  [Grams |-> [g \in Keys |-> Cardinality({i \in Starts : Mid(Source, i, N) = g})],
              TotalGrams |-> Cardinality(Starts)]

\* FRENGramSet: Grams maps each gram to its count
GenerateNGrams(Source, N) ==
    IF Len(Source) < N
    THEN [Grams |-> [g \in {Source} |-> 1], TotalGrams |-> 1]
    ELSE LET Starts == 0..(Len(Source) - N)
             Keys == {Mid(Source, i, N) : i \in Starts}
         IN  [Grams |-> [g \in Keys |-> Cardinality({i \in Starts : Mid(Source, i, N) = g})],
              TotalGrams |-> Cardinality(Starts)]

\* mutant of CalculateDice: the intersection counts each common gram once
CalculateDice_SetIntersection(A, B, N) ==
    IF A = <<>> \/ B = <<>> THEN Zero
    ELSE IF A = B THEN One
    ELSE LET GramsA == GenerateNGrams(A, N)
             GramsB == GenerateNGrams(B, N)
             Common == DOMAIN GramsA.Grams \cap DOMAIN GramsB.Grams
         IN  Rat(2 * Cardinality(Common), GramsA.TotalGrams + GramsB.TotalGrams)

CalculateDice(A, B, N) ==
    IF A = <<>> \/ B = <<>> THEN Zero
    ELSE IF A = B THEN One
    ELSE LET GramsA == GenerateNGrams(A, N)
             GramsB == GenerateNGrams(B, N)
             Common == DOMAIN GramsA.Grams \cap DOMAIN GramsB.Grams
             Intersection == SumOver([g \in Common |-> Min2(GramsA.Grams[g], GramsB.Grams[g])], Common)
         IN  Rat(2 * Intersection, GramsA.TotalGrams + GramsB.TotalGrams)

\* mutant of CalculateJaccard: grams are counted with their multiplicities
CalculateJaccard_Multiset(A, B, N) ==
    IF A = <<>> \/ B = <<>> THEN Zero
    ELSE IF A = B THEN One
    ELSE LET GramsA == GenerateNGrams(A, N)
             GramsB == GenerateNGrams(B, N)
             Common == DOMAIN GramsA.Grams \cap DOMAIN GramsB.Grams
             Intersection == SumOver([g \in Common |-> Min2(GramsA.Grams[g], GramsB.Grams[g])], Common)
         IN  Rat(Intersection, GramsA.TotalGrams + GramsB.TotalGrams - Intersection)

CalculateJaccard(A, B, N) ==
    IF A = <<>> \/ B = <<>> THEN Zero
    ELSE IF A = B THEN One
    ELSE LET GramsA == GenerateNGrams(A, N)
             GramsB == GenerateNGrams(B, N)
             Union == DOMAIN GramsA.Grams \cup DOMAIN GramsB.Grams
             Intersection == DOMAIN GramsA.Grams \cap DOMAIN GramsB.Grams
         IN  IF Cardinality(Union) = 0 THEN Zero
             ELSE Rat(Cardinality(Intersection), Cardinality(Union))

CalculateCosine(A, B, N) ==
    IF A = <<>> \/ B = <<>> THEN Zero
    ELSE IF A = B THEN One
    ELSE LET GramsA == GenerateNGrams(A, N)
             GramsB == GenerateNGrams(B, N)
             KA == DOMAIN GramsA.Grams
             KB == DOMAIN GramsB.Grams
             DotProduct == SumOver([g \in KA \cap KB |-> GramsA.Grams[g] * GramsB.Grams[g]], KA \cap KB)
             MagnitudeA == SumOver([g \in KA |-> GramsA.Grams[g] * GramsA.Grams[g]], KA)
             MagnitudeB == SumOver([g \in KB |-> GramsB.Grams[g] * GramsB.Grams[g]], KB)
         IN  IF MagnitudeA = 0 \/ MagnitudeB = 0 THEN Zero
             ELSE Root(DotProduct * DotProduct, MagnitudeA * MagnitudeB)

\* default gram size of CalculateDice, CalculateJaccard and CalculateCosine
DefaultN == 2

\* ------------------------------------------------------------------------
\* Phonetic family
\* ------------------------------------------------------------------------
\* SoundexMap once InitializePhoneticMaps has run: 'B','F','P','V' -> '1', ...
SoundexMapFull ==
    [c \in {66, 70, 80, 86, 67, 71, 74, 75, 81, 83, 88, 90, 68, 84, 76, 77, 78, 82} |->
        CASE c \in {66, 70, 80, 86} -> 49
          [] c \in {67, 71, 74, 75, 81, 83, 88, 90} -> 50
          [] c \in {68, 84} -> 51
          [] c = 76 -> 52
          [] c \in {77, 78} -> 53
          [] c = 82 -> 54]

\* mutant of SoundexLoop: a character that is no letter does not reset LastCode
RECURSIVE SoundexLoop_NoReset(_, _, _, _, _)
SoundexLoop_NoReset(Upper, Map, i, Result, LastCode) ==
    IF i > Len(Upper) \/ Len(Result) >= 4 THEN Result
    ELSE LET Ch == Upper[i]
         IN  IF Ch \in DOMAIN Map
             THEN IF Map[Ch] # LastCode
                  THEN SoundexLoop_NoReset(Upper, Map, i + 1, Append(Result, Map[Ch]), Map[Ch])
                  ELSE SoundexLoop_NoReset(Upper, Map, i + 1, Result, LastCode)
             ELSE SoundexLoop_NoReset(Upper, Map, i + 1, Result, LastCode)

\* the encoding loop of GenerateSoundex; i is 1-based
RECURSIVE SoundexLoop(_, _, _, _, _)
SoundexLoop(Upper, Map, i, Result, LastCode) ==
    IF i > Len(Upper) \/ Len(Result) >= 4 THEN Result
    ELSE LET Ch == Upper[i]
         IN  IF Ch \in DOMAIN Map
             THEN IF Map[Ch] # LastCode
                  THEN SoundexLoop(Upper, Map, i + 1, Append(Result, Map[Ch]), Map[Ch])
                  ELSE SoundexLoop(Upper, Map, i + 1, Result, LastCode)
             ELSE IF ~IsAlpha(Ch)
                  THEN SoundexLoop(Upper, Map, i + 1, Result, 48)
                  ELSE SoundexLoop(Upper, Map, i + 1, Result, LastCode)

RECURSIVE PadZeros(_)
PadZeros(s) == IF Len(s) < 4 THEN PadZeros(Append(s, 48)) ELSE s

\* mutant of GenerateSoundex: the code is not padded with zeros
GenerateSoundex_NoPad(Input, Map) ==
    IF Input = <<>> THEN <<48, 48, 48, 48>>
    ELSE LET Upper == ToUpper(Input)
         IN  SoundexLoop(Upper, Map, 2, <<Upper[1]>>, 48)

\* GenerateSoundex reading the table Map (SoundexMap after its lazy init)
GenerateSoundex(Input, Map) ==
    IF Input = <<>> THEN <<48, 48, 48, 48>>
    ELSE LET Upper == ToUpper(Input)
         IN  PadZeros(SoundexLoop(Upper, Map, 2, <<Upper[1]>>, 48))

\* one iteration of the switch of GenerateMetaphone at 0-based index Current:
\* what is appended to Primary and Secondary, and the extra advance of Current
MetaphoneStep(Upper, Current) ==
    LET Length == Len(Upper)
        Ch == Upper[Current + 1]
        HasNext == Current + 1 < Length
        Next == IF HasNext THEN Upper[Current + 2] ELSE 0
        Same(x, k) == [p |-> x, s |-> x, skip |-> k]
    IN  CASE Ch \in {65, 69, 73, 79, 85, 89} ->
                 IF Current = 0 THEN Same(<<Ch>>, 0) ELSE Same(<<>>, 0)
          [] Ch = 66 -> Same(<<66>>, IF HasNext /\ Next = 66 THEN 1 ELSE 0)
          [] Ch = 67 ->
                 IF HasNext
                 THEN IF Next = 72 THEN Same(<<88>>, 1)
                      ELSE IF Next \in {73, 69, 89} THEN Same(<<83>>, 0)
                      ELSE Same(<<75>>, 0)
                 ELSE Same(<<75>>, 0)
          [] Ch = 68 -> Same(<<84>>, 0)
          [] Ch = 70 -> Same(<<70>>, 0)
          [] Ch = 71 -> Same(<<75>>, IF HasNext /\ Next = 72 THEN 1 ELSE 0)
          [] Ch = 72 ->
                 IF (Current = 0 \/ ~IsAlpha(Upper[Current])) /\ (HasNext /\ IsAlpha(Next))
                 THEN Same(<<72>>, 0) ELSE Same(<<>>, 0)
          [] Ch \in {74, 75, 76, 77, 78} -> Same(<<Ch>>, 0)
          [] Ch = 80 -> IF HasNext /\ Next = 72 THEN Same(<<70>>, 1) ELSE Same(<<80>>, 0)
          [] Ch = 81 -> Same(<<75>>, 0)
          [] Ch = 82 -> Same(<<82>>, 0)
          [] Ch = 83 -> Same(<<83>>, 0)
          [] Ch = 84 ->
                 IF HasNext /\ Next = 72 THEN [p |-> <<48>>, s |-> <<84>>, skip |-> 1]
                 ELSE Same(<<84>>, 0)
          [] Ch = 86 -> Same(<<70>>, 0)
          [] Ch = 87 -> Same(<<87>>, 0)
          [] Ch = 88 -> Same(<<75, 83>>, 0)
          [] Ch = 90 -> Same(<<83>>, 0)
          [] OTHER -> Same(<<>>, 0)

RECURSIVE MetaphoneLoop(_, _, _, _)
MetaphoneLoop(Upper, Current, Primary, Secondary) ==
    IF ~(Current < Len(Upper) /\ Len(Primary) < 4)
    THEN [Primary |-> Primary, Secondary |-> Secondary]
    ELSE LET st == MetaphoneStep(Upper, Current)
         IN  MetaphoneLoop(Upper, Current + st.skip + 1, Primary \o st.p, Secondary \o st.s)

\* the list of encodings, primary first
GenerateMetaphone(Input, bDouble) ==
    IF Input = <<>> THEN << <<>> >>
    ELSE LET Upper == ToUpper(Input)
             Silent == Len(Upper) > 1 /\ Upper[2] = 78 /\ Upper[1] \in {71, 75, 80}
             SilentW == Len(Upper) > 1 /\ Upper[1] = 87 /\ Upper[2] = 82
             LeadX == Len(Upper) > 1 /\ ~Silent /\ ~SilentW /\ Upper[1] = 88
             r == IF Silent \/ SilentW THEN MetaphoneLoop(Upper, 1, <<>>, <<>>)
                  ELSE IF LeadX THEN MetaphoneLoop(Upper, 1, <<83>>, <<83>>)
                  ELSE MetaphoneLoop(Upper, 0, <<>>, <<>>)
         IN  IF bDouble /\ r.Secondary # r.Primary
             THEN <<r.Primary, r.Secondary>> ELSE <<r.Primary>>

\* the nested loop of CompareStrings over the two encoding lists
MetaphoneMatch(A, B) ==
    LET MetaphoneA == GenerateMetaphone(A, TRUE)
        MetaphoneB == GenerateMetaphone(B, TRUE)
    IN  \E i \in 1..Len(MetaphoneA), j \in 1..Len(MetaphoneB) : MetaphoneA[i] = MetaphoneB[j]

\* ------------------------------------------------------------------------
\* Typo/visual family
\* ------------------------------------------------------------------------
\* the keys of the four keyboard rows, left to right
KeyRows == << <<49, 50, 51, 52, 53, 54, 55, 56, 57, 48>>,
              <<113, 119, 101, 114, 116, 121, 117, 105, 111, 112>>,
              <<97, 115, 100, 102, 103, 104, 106, 107, 108>>,
              <<122, 120, 99, 118, 98, 110, 109>> >>

\* KeyboardLayout once InitializeKeyboardLayout has run; coordinates are in
\* quarters of a key: rows 2 and 3 are staggered by 0.25 and 0.5
KeyboardLayoutFull ==
    LET Keys == UNION {{KeyRows[r][k] : k \in 1..Len(KeyRows[r])} : r \in 1..4}
        RowOf(c) == CHOOSE r \in 1..4 : \E k \in 1..Len(KeyRows[r]) : KeyRows[r][k] = c
        ColOf(c) == CHOOSE k \in 1..Len(KeyRows[RowOf(c)]) : KeyRows[RowOf(c)][k] = c
        Stagger(r) == IF r = 3 THEN 1 ELSE IF r = 4 THEN 2 ELSE 0
    IN  [c \in Keys |-> [X |-> 4 * (ColOf(c) - 1) + Stagger(RowOf(c)), Y |-> 4 * (RowOf(c) - 1)]]

\* FMath::Clamp(1.0f - FVector2D::Distance(PosA, PosB) / 10.0f, 0, 1); the
\* square root is taken to 1/40 of a key, rounded down
KeyNormalized(PosA, PosB) ==
    LET D16 == (PosA.X - PosB.X) * (PosA.X - PosB.X) + (PosA.Y - PosB.Y) * (PosA.Y - PosB.Y)
        v == RSub(One, Rat(ISqrt(D16 * 100), 400))
    IN  RMax(Zero, RMin(One, v))

RECURSIVE KeyTotal(_, _, _, _)
KeyTotal(A, B, Layout, i) ==
    IF i > Min2(Len(A), Len(B)) THEN Zero
    ELSE LET CharA == ToLowerChar(A[i])
             CharB == ToLowerChar(B[i])
             c == IF CharA = CharB THEN One
                  ELSE IF CharA \in DOMAIN Layout /\ CharB \in DOMAIN Layout
                       THEN KeyNormalized(Layout[CharA], Layout[CharB])
                       ELSE Zero
         IN  RAdd(c, KeyTotal(A, B, Layout, i + 1))

\* CalculateKeyboardDistance reading the table Layout (KeyboardLayout after
\* its lazy init)
CalculateKeyboardDistance(A, B, Layout) ==
    IF A = <<>> \/ B = <<>> THEN Zero
    ELSE IF A = B THEN One
    ELSE LET Comparisons == Min2(Len(A), Len(B))
             LengthPenalty == RSub(One, Rat(Abs(Len(A) - Len(B)), Max2(Len(A), Len(B))))
         IN  IF Comparisons > 0
             THEN RMul(RDiv(KeyTotal(A, B, Layout, 1), Rat(Comparisons, 1)), LengthPenalty)
             ELSE Zero

\* the static table of AreVisualConfusables; 29294 is the two-character
\* literal 'rn'
Confusables ==
    [c \in {48, 79, 111, 49, 108, 73, 124, 53, 83, 115, 50, 90, 122, 56, 66, 54, 71,
            98, 100, 109, 110, 118, 119} |->
        CASE c = 48 -> {79, 111}
          [] c = 79 -> {48, 111}
          [] c = 111 -> {48, 79}
          [] c = 49 -> {108, 73, 124}
          [] c = 108 -> {49, 73, 124}
          [] c = 73 -> {49, 108, 124}
          [] c = 124 -> {49, 108, 73}
          [] c = 53 -> {83, 115}
          [] c = 83 -> {53, 115}
          [] c = 115 -> {53, 83}
          [] c = 50 -> {90, 122}
          [] c = 90 -> {50, 122}
          [] c = 122 -> {50, 90}
          [] c = 56 -> {66}
          [] c = 66 -> {56}
          [] c = 54 -> {71, 98}
          [] c = 71 -> {54}
          [] c = 98 -> {54, 100}
          [] c = 100 -> {98}
          [] c = 109 -> {110, 29294}
          [] c = 110 -> {109}
          [] c = 118 -> {119}
          [] c = 119 -> {118}]

AreVisualConfusables(A, B) ==
    IF A = B THEN TRUE
    ELSE IF Len(A) # Len(B) THEN FALSE
    ELSE \A i \in 1..Len(A) :
            A[i] = B[i] \/ (A[i] \in DOMAIN Confusables /\ B[i] \in Confusables[A[i]])

\* ------------------------------------------------------------------------
\* Static tables and their lazy initialisation
\* ------------------------------------------------------------------------
\* EREFuzzyAlgorithm
Algorithms == {"Levenshtein", "DamerauLevenshtein", "OptimalAlignment", "Hamming",
               "Jaro", "JaroWinkler", "LCS", "LCSS", "Jaccard", "Dice", "Cosine",
               "Soundex", "Metaphone", "KeyboardDistance", "Auto"}

\* an empty TMap
EmptyMap == [c \in {} |-> 0]

\* the static members of UREFuzzy at program start
StaticsInit ==
    [KeyboardLayout |-> EmptyMap, bKeyboardInitialized |-> FALSE,
     SoundexMap |-> EmptyMap, bPhoneticInitialized |-> FALSE]

\* a whole run of InitializeKeyboardLayout by one thread
InitializeKeyboardLayout(st) ==
    IF st.bKeyboardInitialized THEN st
    ELSE [st EXCEPT !.KeyboardLayout = KeyboardLayoutFull, !.bKeyboardInitialized = TRUE]

\* a whole run of InitializePhoneticMaps by one thread
InitializePhoneticMaps(st) ==
    IF st.bPhoneticInitialized THEN st
    ELSE [st EXCEPT !.SoundexMap = SoundexMapFull, !.bPhoneticInitialized = TRUE]

Initialize(st) == InitializePhoneticMaps(InitializeKeyboardLayout(st))

\* The calls below return [ret, st]: the returned value and the statics
\* after the call.

GenerateSoundexCall(Input, st) ==
    IF Input = <<>> THEN [ret |-> <<48, 48, 48, 48>>, st |-> st]
    ELSE LET st1 == InitializePhoneticMaps(st)
         IN  [ret |-> GenerateSoundex(Input, st1.SoundexMap), st |-> st1]

CalculateKeyboardDistanceCall(A, B, st) ==
    LET st1 == InitializeKeyboardLayout(st)
    IN  [ret |-> CalculateKeyboardDistance(A, B, st1.KeyboardLayout), st |-> st1]

\* ------------------------------------------------------------------------
\* Aggregator
\* ------------------------------------------------------------------------
\* a default-constructed FREStringMatch holding the two inputs
\* (ComputationTimeMS, a wall-clock reading, is left out)
NewStringMatch(A, B) ==
    [StringA |-> A, StringB |-> B,
     LevenshteinDistance |-> 0, NormalizedLevenshtein |-> Zero,
     DamerauLevenshteinDistance |-> 0, HammingDistance |-> 0 - 1,
     OptimalAlignmentDistance |-> 0,
     JaroSimilarity |-> Zero, JaroWinklerSimilarity |-> Zero,
     LongestCommonSubsequence |-> 0, LongestCommonSubstring |-> 0,
     DiceCoefficient |-> Zero, JaccardIndex |-> Zero, CosineSimilarity |-> Zero,
     bSoundexMatch |-> FALSE, bMetaphoneMatch |-> FALSE,
     SoundexA |-> <<>>, SoundexB |-> <<>>,
     KeyboardDistance |-> Zero, bVisuallyConfusable |-> FALSE,
     bWasCached |-> FALSE, BestSimilarity |-> Zero]

GetBestSimilarity(m) ==
    RMax(RMax(RMax(RMax(m.NormalizedLevenshtein, m.JaroWinklerSimilarity),
                   m.DiceCoefficient), m.JaccardIndex), m.CosineSimilarity)

\* the "special cases" branch of CompareStrings for equal prepared strings
PerfectMatch(Result) ==
    [Result EXCEPT !.NormalizedLevenshtein = One,
                   !.JaroWinklerSimilarity = One,
                   !.DiceCoefficient = One,
                   !.CosineSimilarity = One,
                   !.JaccardIndex = One,
                   !.bSoundexMatch = TRUE,
                   !.bMetaphoneMatch = TRUE]

\* the "calculate all metrics" part of CompareStrings
AllMetrics(Result, PreparedA, PreparedB, st) ==
    LET Lev == CalculateLevenshtein(PreparedA, PreparedB)
        sa == GenerateSoundexCall(PreparedA, st)
        sb == GenerateSoundexCall(PreparedB, sa.st)
        kd == CalculateKeyboardDistanceCall(PreparedA, PreparedB, sb.st)
    IN  [ret |-> [Result EXCEPT
             !.LevenshteinDistance = Lev,
             !.NormalizedLevenshtein =
                 OneMinus(FloatDiv(Lev, Max2(Len(PreparedA), Len(PreparedB)))),
             !.DamerauLevenshteinDistance = CalculateDamerauLevenshtein(PreparedA, PreparedB),
             !.HammingDistance = CalculateHamming(PreparedA, PreparedB),
             !.JaroSimilarity = CalculateJaro(PreparedA, PreparedB),
             !.JaroWinklerSimilarity = CalculateJaroWinkler(PreparedA, PreparedB, DefaultPrefixScale),
             !.LongestCommonSubsequence = CalculateLCS(PreparedA, PreparedB),
             !.LongestCommonSubstring = CalculateLCSS(PreparedA, PreparedB),
             !.DiceCoefficient = CalculateDice(PreparedA, PreparedB, DefaultN),
             !.JaccardIndex = CalculateJaccard(PreparedA, PreparedB, DefaultN),
             !.CosineSimilarity = CalculateCosine(PreparedA, PreparedB, DefaultN),
             !.bSoundexMatch = (sa.ret = sb.ret),
             !.bMetaphoneMatch = MetaphoneMatch(PreparedA, PreparedB),
             !.KeyboardDistance = kd.ret],
         st |-> kd.st]

\* mutant of CompareStrings: the empty check made before the equality check
CompareStrings_EmptyFirst(A, B, bNormalize, st) ==
    LET Result == NewStringMatch(A, B)
        PreparedA == PrepareString(A, bNormalize)
        PreparedB == PrepareString(B, bNormalize)
    IN  IF PreparedA = <<>> \/ PreparedB = <<>> THEN [ret |-> Result, st |-> st]
        ELSE IF PreparedA = PreparedB THEN [ret |-> PerfectMatch(Result), st |-> st]
        ELSE AllMetrics(Result, PreparedA, PreparedB, st)

CompareStrings(A, B, bNormalize, st) ==
    LET Result == NewStringMatch(A, B)
        PreparedA == PrepareString(A, bNormalize)
        PreparedB == PrepareString(B, bNormalize)
    IN  IF PreparedA = PreparedB THEN [ret |-> PerfectMatch(Result), st |-> st]
        ELSE IF PreparedA = <<>> \/ PreparedB = <<>> THEN [ret |-> Result, st |-> st]
        ELSE AllMetrics(Result, PreparedA, PreparedB, st)

\* the switch of CompareStringsWithAlgo on the record CompareStrings returned;
\* LenA and LenB are A.Len() and B.Len() of the arguments as passed
ChosenSimilarity(Result, Algorithm, LenA, LenB) ==
    CASE Algorithm = "Levenshtein" -> Result.NormalizedLevenshtein
      [] Algorithm = "DamerauLevenshtein" ->
             OneMinus(FloatDiv(Result.DamerauLevenshteinDistance, Max2(LenA, LenB)))
      [] Algorithm = "Hamming" ->
             OneMinus(FloatDiv(Result.HammingDistance, Max2(LenA, LenB)))
      [] Algorithm = "JaroWinkler" -> Result.JaroWinklerSimilarity
      [] Algorithm = "Dice" -> Result.DiceCoefficient
      [] Algorithm = "Cosine" -> Result.CosineSimilarity
      [] Algorithm = "Jaccard" -> Result.JaccardIndex
      [] Algorithm = "Soundex" -> IF Result.bSoundexMatch THEN One ELSE Zero
      [] Algorithm = "Metaphone" -> IF Result.bMetaphoneMatch THEN One ELSE Zero
      [] OTHER -> GetBestSimilarity(Result)

SetBestSimilarity(c, Best) == [ret |-> [c.ret EXCEPT !.BestSimilarity = Best], st |-> c.st]

CompareStringsWithAlgo(A, B, Algorithm, bNormalize, st) ==
    LET c == CompareStrings(A, B, bNormalize, st)
    IN  SetBestSimilarity(c, ChosenSimilarity(c.ret, Algorithm, Len(A), Len(B)))

\* the switch of GetSimilarity on the prepared strings
GetSimilaritySwitch(PreparedA, PreparedB, Algorithm, st) ==
    LET MaxLen == Max2(Len(PreparedA), Len(PreparedB))
        Pure(x) == [ret |-> x, st |-> st]
    IN  CASE Algorithm = "Levenshtein" ->
                 Pure(OneMinus(FloatDiv(CalculateLevenshtein(PreparedA, PreparedB), MaxLen)))
          [] Algorithm = "DamerauLevenshtein" ->
                 Pure(OneMinus(FloatDiv(CalculateDamerauLevenshtein(PreparedA, PreparedB), MaxLen)))
          [] Algorithm = "Jaro" -> Pure(CalculateJaro(PreparedA, PreparedB))
          [] Algorithm = "JaroWinkler" ->
                 Pure(CalculateJaroWinkler(PreparedA, PreparedB, DefaultPrefixScale))
          [] Algorithm = "Dice" -> Pure(CalculateDice(PreparedA, PreparedB, DefaultN))
          [] Algorithm = "Jaccard" -> Pure(CalculateJaccard(PreparedA, PreparedB, DefaultN))
          [] Algorithm = "Cosine" -> Pure(CalculateCosine(PreparedA, PreparedB, DefaultN))
          [] Algorithm = "KeyboardDistance" ->
                 CalculateKeyboardDistanceCall(PreparedA, PreparedB, st)
          [] OTHER -> Pure(CalculateJaroWinkler(PreparedA, PreparedB, DefaultPrefixScale))

\* mutant of GetSimilarity: the empty check made before the equality check
GetSimilarity_EmptyFirst(A, B, Algorithm, bNormalize, st) ==
    LET PreparedA == PrepareString(A, bNormalize)
        PreparedB == PrepareString(B, bNormalize)
    IN  IF PreparedA = <<>> \/ PreparedB = <<>> THEN [ret |-> Zero, st |-> st]
        ELSE IF PreparedA = PreparedB THEN [ret |-> One, st |-> st]
        ELSE GetSimilaritySwitch(PreparedA, PreparedB, Algorithm, st)

GetSimilarity(A, B, Algorithm, bNormalize, st) ==
    LET PreparedA == PrepareString(A, bNormalize)
        PreparedB == PrepareString(B, bNormalize)
    IN  IF PreparedA = PreparedB THEN [ret |-> One, st |-> st]
        ELSE IF PreparedA = <<>> \/ PreparedB = <<>> THEN [ret |-> Zero, st |-> st]
        ELSE GetSimilaritySwitch(PreparedA, PreparedB, Algorithm, st)

GetEditDistance(A, B, Algorithm) ==
    CASE Algorithm = "Levenshtein" -> CalculateLevenshtein(A, B)
      [] Algorithm = "DamerauLevenshtein" -> CalculateDamerauLevenshtein(A, B)
      [] Algorithm = "OptimalAlignment" -> CalculateOptimalAlignment(A, B)
      [] Algorithm = "Hamming" -> CalculateHamming(A, B)
      [] OTHER -> CalculateLevenshtein(A, B)

\* The calls that reach CalculateDamerauLevenshtein with arguments that take
\* it outside its matrix: a build with range checks stops there.
CompareStringsStops(A, B, bNormalize) ==
    LET PreparedA == PrepareString(A, bNormalize)
        PreparedB == PrepareString(B, bNormalize)
    IN  PreparedA # PreparedB /\ DLReadsOutOfRange(PreparedA, PreparedB)

GetSimilarityStops(A, B, Algorithm, bNormalize) ==
    Algorithm = "DamerauLevenshtein" /\ CompareStringsStops(A, B, bNormalize)

FindBestMatchesStops(Query, Candidates, Algorithm) ==
    \E i \in 1..Len(Candidates) : GetSimilarityStops(Query, Candidates[i], Algorithm, TRUE)

\* ------------------------------------------------------------------------
\* Batch operations
\* ------------------------------------------------------------------------
\* The scoring loop: every candidate is scored with GetSimilarity(Query,
\* Candidate, Algorithm, true) and kept, in input order, when its score is
\* at least MinSimilarity.
\* the filter with Score > MinSimilarity in place of Score >= MinSimilarity
RECURSIVE ScoreCandidates_Strict(_, _, _, _, _, _, _)
ScoreCandidates_Strict(Query, Candidates, Algorithm, MinSimilarity, i, Scored, st) ==
    IF i > Len(Candidates) THEN [ret |-> Scored, st |-> st]
    ELSE LET r == GetSimilarity(Query, Candidates[i], Algorithm, TRUE, st)
         IN  ScoreCandidates_Strict(Query, Candidates, Algorithm, MinSimilarity, i + 1,
                 IF RLt(MinSimilarity, r.ret)
                     THEN Append(Scored, [Key |-> Candidates[i], Value |-> r.ret])
                     ELSE Scored,
                 r.st)

RECURSIVE ScoreCandidates(_, _, _, _, _, _, _)
ScoreCandidates(Query, Candidates, Algorithm, MinSimilarity, i, Scored, st) ==
    IF i > Len(Candidates) THEN [ret |-> Scored, st |-> st]
    ELSE LET r == GetSimilarity(Query, Candidates[i], Algorithm, TRUE, st)
         IN  ScoreCandidates(Query, Candidates, Algorithm, MinSimilarity, i + 1,
                 IF RLe(MinSimilarity, r.ret)
                     THEN Append(Scored, [Key |-> Candidates[i], Value |-> r.ret])
                     ELSE Scored,
                 r.st)

Permutations1(n) == {p \in [1..n -> 1..n] : \A x, y \in 1..n : p[x] = p[y] => x = y}

\* TArray::Sort with the predicate A.Value > B.Value.  The sort is not
\* stable: every arrangement in which no later element goes before an earlier
\* one under the predicate is a possible outcome.
SortByScore_Unsorted(Scored) ==
    {[k \in 1..Len(Scored) |-> Scored[p[k]]] : p \in Permutations1(Len(Scored))}

SortByScore(Scored) ==
    {s \in {[k \in 1..Len(Scored) |-> Scored[p[k]]] : p \in Permutations1(Len(Scored))} :
        \A x, y \in 1..Len(s) : x < y => ~RLt(s[x].Value, s[y].Value)}

\* FindBestMatches: the set of the [ret, st] it can return.
FindBestMatches(Query, Candidates, MaxResults, MinSimilarity, Algorithm, st) ==
    LET sc == ScoreCandidates(Query, Candidates, Algorithm, MinSimilarity, 1, <<>>, st)
        NumResults(s) == Min2(MaxResults, Len(s))
    IN  {[ret |-> [i \in 1..NumResults(s) |-> s[i].Key], st |-> sc.st] :
            s \in SortByScore(sc.ret)}

\* ------------------------------------------------------------------------
\* TThreadSafeCache<TKey, TValue> (Tests/REFuzzyTests.cpp)
\* ------------------------------------------------------------------------
\* The cache is the pair of its fields Cache, a TMap from keys to entries,
\* and CurrentSizeBytes.  Of an entry the model keeps Meta.SizeBytes and
\* Meta.LastAccessed; Data, Meta.AccessCount and Meta.Priority are written
\* and never read by the cache.
MaxKeys == 3
CacheKeys == 1..MaxKeys

\* the values of FDateTime::Now(): wall-clock time, which two calls can
\* read as the same tick
MaxTime == 1
Times == 0..MaxTime

DefaultMaxEntries == 10000
DefaultMaxSizeBytes == 67108864

\* Cache.Num()
CacheNum(c) == Cardinality(DOMAIN c.Cache)

\* the body of Remove(Key)
CacheRemove(c, Key) ==
    IF Key \in DOMAIN c.Cache
        THEN [Cache |-> [k \in DOMAIN c.Cache \ {Key} |-> c.Cache[k]],
              CurrentSizeBytes |-> c.CurrentSizeBytes - c.Cache[Key].SizeBytes]
        ELSE c

\* a TMap with no entry
EmptyCache == [k \in {} |-> 0]

\* the body of Clear()
CacheClear(c) == [Cache |-> EmptyCache, CurrentSizeBytes |-> 0]

\* the body of Get(Key): the entry found is stamped with the time
CacheGet(c, Key, now) ==
    IF Key \in DOMAIN c.Cache
        THEN [ret |-> TRUE,
              c |-> [c EXCEPT !.Cache[Key].LastAccessed = now]]
        ELSE [ret |-> FALSE, c |-> c]

\* the keys the scan of EvictLRU can end on: the scan keeps the first entry
\* in the TMap's iteration order among those of the oldest time
OldestKeys(c) ==
    {k \in DOMAIN c.Cache :
        \A j \in DOMAIN c.Cache : c.Cache[k].LastAccessed <= c.Cache[j].LastAccessed}

\* an EvictLRU that removes nothing
EvictLRU_KeepsAll(c) == {[c |-> c, KeyToEvict |-> k] : k \in CacheKeys}

\* EvictLRU(): the cache after it and its local KeyToEvict.  On an empty
\* cache the scan assigns nothing, and Remove finds no entry under whatever
\* key KeyToEvict holds.
EvictLRU(c) ==
    IF DOMAIN c.Cache = {}
        THEN {[c |-> c, KeyToEvict |-> k] : k \in CacheKeys}
        ELSE {[c |-> CacheRemove(c, k), KeyToEvict |-> k] : k \in OldestKeys(c)}

\* the condition of Put under which it evicts
NeedsEviction(c, SizeBytes, MaxEntriesOfCache, MaxSizeBytesOfCache) ==
    \/ CacheNum(c) >= MaxEntriesOfCache
    \/ SizeBytes > 0 /\ c.CurrentSizeBytes + SizeBytes > MaxSizeBytesOfCache

\* the rest of Put: the size tracking and Cache.Add
CacheAdd(c, Key, SizeBytes, now) ==
    [Cache |-> [k \in DOMAIN c.Cache \cup {Key} |->
                   IF k = Key THEN [SizeBytes |-> SizeBytes, LastAccessed |-> now]
                   ELSE c.Cache[k]],
     CurrentSizeBytes |->
         (IF Key \in DOMAIN c.Cache
              THEN c.CurrentSizeBytes - c.Cache[Key].SizeBytes
              ELSE c.CurrentSizeBytes) + SizeBytes]

\* ------------------------------------------------------------------------
\* State
\* ------------------------------------------------------------------------
VARIABLES
    KeyboardLayout,        \* static TMap<TCHAR, FVector2D>
    bKeyboardInitialized,  \* static bool
    SoundexMap,            \* static TMap<TCHAR, TCHAR>
    bPhoneticInitialized,  \* static bool
    A, B,                  \* the string arguments of the call (A is the Query of a search)
    Algorithm, bNormalize, \* the selector and the normalize flag of the call
    Candidates, MaxResults, MinSimilarity,  \* the other arguments of FindBestMatches
    N,                     \* the gram size of the call
    op,                    \* the function that was called, "none" before the call
    Result,                \* what it returned
    threads,               \* per thread: its call, its position in it, what it returned
    hist                   \* what the threads have done to the static tables so far


VARIABLES
    Cache,                 \* TThreadSafeCache: TMap<TKey, TCacheEntry<TValue>>
    CacheMutex,            \* the thread inside the FScopeLock, 0 when it is free
    MaxEntries,            \* set by the constructor
    MaxSizeBytes,          \* set by the constructor
    CurrentSizeBytes,      \* the size tracked by Put, Remove and Clear
    callers                \* per thread: its call of the cache and its position in it

cacheVars == <<Cache, CacheMutex, MaxEntries, MaxSizeBytes, CurrentSizeBytes, callers>>

vars == <<KeyboardLayout, bKeyboardInitialized, SoundexMap, bPhoneticInitialized,
          A, B, Algorithm, bNormalize, Candidates, MaxResults, MinSimilarity, op, Result,
          threads, hist, OutOfRangeValue, N,
          Cache, CacheMutex, MaxEntries, MaxSizeBytes, CurrentSizeBytes, callers>>

statics == [KeyboardLayout |-> KeyboardLayout, bKeyboardInitialized |-> bKeyboardInitialized,
            SoundexMap |-> SoundexMap, bPhoneticInitialized |-> bPhoneticInitialized]

SetStatics(st) ==
    /\ KeyboardLayout' = st.KeyboardLayout
    /\ bKeyboardInitialized' = st.bKeyboardInitialized
    /\ SoundexMap' = st.SoundexMap
    /\ bPhoneticInitialized' = st.bPhoneticInitialized

StaticsAtStart ==
    /\ KeyboardLayout = StaticsInit.KeyboardLayout
    /\ bKeyboardInitialized = StaticsInit.bKeyboardInitialized
    /\ SoundexMap = StaticsInit.SoundexMap
    /\ bPhoneticInitialized = StaticsInit.bPhoneticInitialized

NumThreads == 2
Threads == 1..NumThreads

\* no thread is inside a call of the cache
CallersIdle ==
    [t \in Threads |-> [pc |-> "idle", call |-> "none", Key |-> 0, SizeBytes |-> 0,
                        KeyToEvict |-> 0]]

\* the constructor TThreadSafeCache(InMaxEntries, InMaxSizeBytes)
TThreadSafeCache(InMaxEntries, InMaxSizeBytes) ==
    /\ Cache = EmptyCache
    /\ CacheMutex = 0
    /\ MaxEntries = InMaxEntries
    /\ MaxSizeBytes = InMaxSizeBytes
    /\ CurrentSizeBytes = 0
    /\ callers = CallersIdle

\* no thread has started a call
ThreadsIdle == [t \in Threads |-> [pc |-> "idle", call |-> "none", i |-> 0, ret |-> <<>>]]
HistInit ==
    [KeyboardPopulators |-> {}, PhoneticPopulators |-> {},
     bFoundUnbuilt |-> FALSE, bModifiedAfterFlag |-> FALSE]

\* the calls of the single-threaded specifications run on the calling thread
SingleThreaded ==
    threads = ThreadsIdle /\ hist = HistInit /\ OutOfRangeValue \in OutOfRangeValues

\* ------------------------------------------------------------------------
\* One call of an API function on a pair of strings
\* ------------------------------------------------------------------------
InitPair ==
    /\ StaticsAtStart
    /\ SingleThreaded
    /\ A \in StringsA
    /\ B \in StringsB
    /\ Algorithm = "Auto"
    /\ bNormalize = TRUE
    /\ Candidates = <<>>
    /\ MaxResults = 5
    /\ MinSimilarity = Rat(1, 2)
    /\ N = DefaultN
    /\ TThreadSafeCache(DefaultMaxEntries, DefaultMaxSizeBytes)
    /\ op = "none"
    /\ Result = <<>>

Returns(name, alg, norm, r) ==
    /\ op' = name
    /\ Algorithm' = alg
    /\ bNormalize' = norm
    /\ Result' = r.ret
    /\ SetStatics(r.st)
    /\ UNCHANGED <<A, B, Candidates, MaxResults, MinSimilarity, threads, hist, OutOfRangeValue, N, cacheVars>>

\* the call ends in the failed range check of H[K]: nothing is returned
Stops(alg, norm) ==
    /\ op' = "stopped"
    /\ Algorithm' = alg
    /\ bNormalize' = norm
    /\ Result' = <<>>
    /\ UNCHANGED <<KeyboardLayout, bKeyboardInitialized, SoundexMap, bPhoneticInitialized,
                   A, B, Candidates, MaxResults, MinSimilarity, threads, hist, OutOfRangeValue, N, cacheVars>>

CallCompareStrings ==
    /\ op = "none"
    /\ \E norm \in BOOLEAN :
          \/ Returns("CompareStrings", Algorithm, norm, CompareStrings(A, B, norm, statics))
          \/ CompareStringsStops(A, B, norm) /\ Stops(Algorithm, norm)

CallCompareStringsWithAlgo ==
    /\ op = "none"
    /\ \E alg \in Algorithms, norm \in BOOLEAN :
          \/ Returns("CompareStringsWithAlgo", alg, norm,
                     CompareStringsWithAlgo(A, B, alg, norm, statics))
          \/ CompareStringsStops(A, B, norm) /\ Stops(alg, norm)

CallGetSimilarity ==
    /\ op = "none"
    /\ \E alg \in Algorithms, norm \in BOOLEAN :
          \/ Returns("GetSimilarity", alg, norm, GetSimilarity(A, B, alg, norm, statics))
          \/ GetSimilarityStops(A, B, alg, norm) /\ Stops(alg, norm)

\* the prepared arguments of the call that was made
PreparedA == PrepareString(A, bNormalize)
PreparedB == PrepareString(B, bNormalize)

\* Spec: a call of GetSimilarity
Spec == InitPair /\ [][CallGetSimilarity]_vars

\* SpecCompare: a call of CompareStrings
SpecCompare == InitPair /\ [][CallCompareStrings]_vars

\* SpecAlgo: a call of CompareStringsWithAlgo
SpecAlgo == InitPair /\ [][CallCompareStringsWithAlgo]_vars

\* ------------------------------------------------------------------------
\* One call of a family function on a pair of strings
\* ------------------------------------------------------------------------
MaxN == 3
GramSizes == 1..MaxN

\* the call name(A, B, ...) returns r; the family functions touch no static
Computes(name, alg, n, r) ==
    /\ op = "none"
    /\ op' = name
    /\ Algorithm' = alg
    /\ N' = n
    /\ Result' = r
    /\ UNCHANGED <<KeyboardLayout, bKeyboardInitialized, SoundexMap, bPhoneticInitialized,
                   A, B, bNormalize, Candidates, MaxResults, MinSimilarity,
                   threads, hist, OutOfRangeValue, cacheVars>>

\* the call ends in the failed range check of H[K]
ComputeStops(alg) == op = "none" /\ Stops(alg, bNormalize)

CallCalculateLevenshtein ==
    Computes("CalculateLevenshtein", Algorithm, N, CalculateLevenshtein(A, B))

CallCalculateDamerauLevenshtein ==
    \/ Computes("CalculateDamerauLevenshtein", Algorithm, N, CalculateDamerauLevenshtein(A, B))
    \/ DLReadsOutOfRange(A, B) /\ ComputeStops(Algorithm)

CallCalculateOptimalAlignment ==
    Computes("CalculateOptimalAlignment", Algorithm, N, CalculateOptimalAlignment(A, B))

CallCalculateHamming ==
    Computes("CalculateHamming", Algorithm, N, CalculateHamming(A, B))

CallGetEditDistance ==
    \E alg \in Algorithms :
        \/ Computes("GetEditDistance", alg, N, GetEditDistance(A, B, alg))
        \/ alg = "DamerauLevenshtein" /\ DLReadsOutOfRange(A, B) /\ ComputeStops(alg)

CallCalculateJaro ==
    Computes("CalculateJaro", Algorithm, N, CalculateJaro(A, B))

CallCalculateJaroWinkler ==
    Computes("CalculateJaroWinkler", Algorithm, N, CalculateJaroWinkler(A, B, DefaultPrefixScale))

CallCalculateDice ==
    \E n \in GramSizes : Computes("CalculateDice", Algorithm, n, CalculateDice(A, B, n))

CallCalculateJaccard ==
    \E n \in GramSizes : Computes("CalculateJaccard", Algorithm, n, CalculateJaccard(A, B, n))

CallCalculateCosine ==
    \E n \in GramSizes : Computes("CalculateCosine", Algorithm, n, CalculateCosine(A, B, n))

NextDistance ==
    \/ CallCalculateLevenshtein
    \/ CallCalculateDamerauLevenshtein
    \/ CallCalculateOptimalAlignment
    \/ CallCalculateHamming
    \/ CallGetEditDistance

\* SpecDistance: a call of one of the edit-distance functions
SpecDistance == InitPair /\ [][NextDistance]_vars

\* SpecHamming: a call of CalculateHamming
SpecHamming == InitPair /\ [][CallCalculateHamming]_vars

NextFamily ==
    \/ CallCalculateLevenshtein
    \/ CallCalculateJaro
    \/ CallCalculateJaroWinkler
    \/ CallCalculateDice
    \/ CallCalculateJaccard
    \/ CallCalculateCosine

\* SpecFamily: a call of CalculateLevenshtein or of one of the similarity
\* functions of the Jaro and n-gram families
SpecFamily == InitPair /\ [][NextFamily]_vars

\* Longer arguments over two letters, for the prefix cap of CalculateJaroWinkler
MaxLenJW == 6
JWAlphabet == {97, 98}
JWStrings == UNION {[1..n -> JWAlphabet] : n \in 0..MaxLenJW}

InitJaroWinkler ==
    /\ StaticsAtStart
    /\ SingleThreaded
    /\ A \in JWStrings
    /\ B \in JWStrings
    /\ Algorithm = "Auto"
    /\ bNormalize = TRUE
    /\ Candidates = <<>>
    /\ MaxResults = 5
    /\ MinSimilarity = Rat(1, 2)
    /\ N = DefaultN
    /\ TThreadSafeCache(DefaultMaxEntries, DefaultMaxSizeBytes)
    /\ op = "none"
    /\ Result = <<>>

NextJaroWinkler ==
    \/ CallCalculateJaro
    \/ CallCalculateJaroWinkler

\* SpecJaroWinkler: a call of CalculateJaro or CalculateJaroWinkler
SpecJaroWinkler == InitJaroWinkler /\ [][NextJaroWinkler]_vars

\* ------------------------------------------------------------------------
\* One call of GenerateSoundex, with or without Initialize() before it
\* ------------------------------------------------------------------------
MaxLenSoundex == 5
\* 'a', 'b', 'p', 'c', 'h', ' ': a vowel, two letters of digit class 1, one
\* of class 2, an unmapped consonant and a character that is no letter
SoundexAlphabet == {97, 98, 112, 99, 104, 32}
\* A, E, I, O, U, H, W, Y in both cases: the letters SoundexMap does not hold
UnmappedLetters ==
    {65, 69, 73, 79, 85, 72, 87, 89, 97, 101, 105, 111, 117, 104, 119, 121}
\* "ab?p" for every unmapped letter ?
SeparatorStrings == {<<97, 98, c, 112>> : c \in UnmappedLetters}
\* "Robert", "Rupert"
SoundexExamples == {<<82, 111, 98, 101, 114, 116>>, <<82, 117, 112, 101, 114, 116>>}
SoundexInputs ==
    UNION {[1..n -> SoundexAlphabet] : n \in 0..MaxLenSoundex}
        \cup SeparatorStrings \cup SoundexExamples

InitSoundex ==
    /\ StaticsAtStart
    /\ SingleThreaded
    /\ A \in SoundexInputs
    /\ B = <<>>
    /\ Algorithm = "Auto"
    /\ bNormalize = TRUE
    /\ Candidates = <<>>
    /\ MaxResults = 5
    /\ MinSimilarity = Rat(1, 2)
    /\ N = DefaultN
    /\ TThreadSafeCache(DefaultMaxEntries, DefaultMaxSizeBytes)
    /\ op = "none"
    /\ Result = <<>>

CallInitialize ==
    /\ op = "none"
    /\ ~(bKeyboardInitialized /\ bPhoneticInitialized)
    /\ SetStatics(Initialize(statics))
    /\ UNCHANGED <<A, B, Algorithm, bNormalize, Candidates, MaxResults, MinSimilarity, N,
                   op, Result, threads, hist, OutOfRangeValue, cacheVars>>

CallGenerateSoundex ==
    /\ op = "none"
    /\ Returns("GenerateSoundex", Algorithm, bNormalize, GenerateSoundexCall(A, statics))

NextSoundex ==
    \/ CallInitialize
    \/ CallGenerateSoundex

\* SpecSoundex: a call of GenerateSoundex(A)
SpecSoundex == InitSoundex /\ [][NextSoundex]_vars

\* ------------------------------------------------------------------------
\* One call of an n-gram function
\* ------------------------------------------------------------------------
MaxLenGram == 4
GramAlphabet == {97, 98}
\* "night", "nacht"
GramExamples == {<<110, 105, 103, 104, 116>>, <<110, 97, 99, 104, 116>>}
GramStrings == UNION {[1..n -> GramAlphabet] : n \in 0..MaxLenGram} \cup GramExamples

InitNGram ==
    /\ StaticsAtStart
    /\ SingleThreaded
    /\ A \in GramStrings
    /\ B \in GramStrings
    /\ Algorithm = "Auto"
    /\ bNormalize = TRUE
    /\ Candidates = <<>>
    /\ MaxResults = 5
    /\ MinSimilarity = Rat(1, 2)
    /\ N = DefaultN
    /\ TThreadSafeCache(DefaultMaxEntries, DefaultMaxSizeBytes)
    /\ op = "none"
    /\ Result = <<>>

\* GenerateNGrams(A, n)
CallGenerateNGrams ==
    \E n \in GramSizes : Computes("GenerateNGrams", Algorithm, n, GenerateNGrams(A, n))

NextNGram ==
    \/ CallGenerateNGrams
    \/ CallCalculateDice
    \/ CallCalculateJaccard

\* SpecNGram: a call of GenerateNGrams, CalculateDice or CalculateJaccard
SpecNGram == InitNGram /\ [][NextNGram]_vars

\* ------------------------------------------------------------------------
\* One call of FindBestMatches on a query and a list of candidates
\* ------------------------------------------------------------------------
MaxCands == 3
MaxResultsBound == 2

\* "ab", "a"
Queries == {<<97, 98>>, <<97>>}
\* "ab", "Ab", "ba", "b", "aaab": "ab" and "Ab" prepare to the same string
CandidatePool == {<<97, 98>>, <<65, 98>>, <<98, 97>>, <<98>>, <<97, 97, 97, 98>>}
CandidateLists == UNION {[1..n -> CandidatePool] : n \in 0..MaxCands}
MinSimilarities == {Zero, Rat(1, 2), One}

InitBatch ==
    /\ StaticsAtStart
    /\ SingleThreaded
    /\ A \in Queries
    /\ B = <<>>
    /\ Algorithm = "Auto"
    /\ bNormalize = TRUE
    /\ Candidates \in CandidateLists
    /\ MaxResults \in 0..MaxResultsBound
    /\ MinSimilarity \in MinSimilarities
    /\ N = DefaultN
    /\ TThreadSafeCache(DefaultMaxEntries, DefaultMaxSizeBytes)
    /\ op = "none"
    /\ Result = <<>>

CallFindBestMatches ==
    /\ op = "none"
    /\ \E alg \in Algorithms :
          \/ \E r \in FindBestMatches(A, Candidates, MaxResults, MinSimilarity, alg, statics) :
                 Returns("FindBestMatches", alg, bNormalize, r)
          \/ FindBestMatchesStops(A, Candidates, alg) /\ Stops(alg, bNormalize)

\* SpecBatch: a call of FindBestMatches
SpecBatch == InitBatch /\ [][CallFindBestMatches]_vars

\* the score FindBestMatches gives a candidate of the call that was made
ScoreOf(Candidate) == GetSimilarity(A, Candidate, Algorithm, TRUE, StaticsInit).ret

\* ------------------------------------------------------------------------
\* Threads making their first calls to the functions that use the tables
\* ------------------------------------------------------------------------
\* Each step below is one statement of InitializeKeyboardLayout or
\* InitializePhoneticMaps (the Adds of one keyboard row, or of one Soundex
\* digit, are taken together), or the lookups of the caller after it.  The
\* code takes no lock, so the steps of different threads interleave freely.
\* Every TMap operation is taken as atomic, which is the most favourable
\* outcome of two threads touching the same TMap.
ThreadCalls == {"Initialize", "CalculateKeyboardDistance", "GenerateSoundex"}

\* the keys added for each Soundex digit, in the order of the source
SoundexGroups == << {66, 70, 80, 86}, {67, 71, 74, 75, 81, 83, 88, 90}, {68, 84},
                    {76}, {77, 78}, {82} >>
KeyRowSet(r) == {KeyRows[r][k] : k \in 1..Len(KeyRows[r])}

\* TMap::Add of the entries of Full with a key in Keys
AddAll(Map, Full, Keys) ==
    [c \in (DOMAIN Map) \cup Keys |-> IF c \in Keys THEN Full[c] ELSE Map[c]]

GoTo(t, pc) == threads' = [threads EXCEPT ![t].pc = pc]
AfterKeyboard(t) == IF threads[t].call = "Initialize" THEN "ph_check" ELSE "kb_find"
AfterPhonetic(t) == IF threads[t].call = "Initialize" THEN "done" ELSE "ph_find"

\* the arguments of the calls are fixed while the threads run
CallUnchanged ==
    UNCHANGED <<A, B, Algorithm, bNormalize, Candidates, MaxResults, MinSimilarity, op, Result,
                OutOfRangeValue, N, cacheVars>>

InitThreads ==
    /\ StaticsAtStart
    /\ SingleThreaded
    /\ A = <<97, 98>>
    /\ B = <<98, 97>>
    /\ Algorithm = "Auto"
    /\ bNormalize = TRUE
    /\ Candidates = <<>>
    /\ MaxResults = 5
    /\ MinSimilarity = Rat(1, 2)
    /\ N = DefaultN
    /\ TThreadSafeCache(DefaultMaxEntries, DefaultMaxSizeBytes)
    /\ op = "none"
    /\ Result = <<>>

\* a thread enters Initialize(), CalculateKeyboardDistance(A, B) or GenerateSoundex(A)
ThreadCall(t) ==
    /\ threads[t].pc = "idle"
    /\ \E c \in ThreadCalls :
          threads' = [threads EXCEPT ![t].call = c,
                         ![t].pc = IF c = "GenerateSoundex" THEN "ph_check" ELSE "kb_check"]
    /\ UNCHANGED <<KeyboardLayout, bKeyboardInitialized, SoundexMap, bPhoneticInitialized, hist>>
    /\ CallUnchanged

\* if (bKeyboardInitialized) return;
KeyboardCheck(t) ==
    /\ threads[t].pc = "kb_check"
    /\ GoTo(t, IF bKeyboardInitialized THEN AfterKeyboard(t) ELSE "kb_empty")
    /\ UNCHANGED <<KeyboardLayout, bKeyboardInitialized, SoundexMap, bPhoneticInitialized, hist>>
    /\ CallUnchanged

\* KeyboardLayout.Empty(47);
KeyboardEmpty(t) ==
    /\ threads[t].pc = "kb_empty"
    /\ KeyboardLayout' = EmptyMap
    /\ threads' = [threads EXCEPT ![t].pc = "kb_add", ![t].i = 1]
    /\ hist' = [hist EXCEPT !.KeyboardPopulators = @ \cup {t},
                            !.bModifiedAfterFlag = @ \/ bKeyboardInitialized]
    /\ UNCHANGED <<bKeyboardInitialized, SoundexMap, bPhoneticInitialized>>
    /\ CallUnchanged

\* KeyboardLayout.Add(...) for the keys of one row
KeyboardAdd(t) ==
    /\ threads[t].pc = "kb_add"
    /\ KeyboardLayout' = AddAll(KeyboardLayout, KeyboardLayoutFull, KeyRowSet(threads[t].i))
    /\ threads' = [threads EXCEPT ![t].i = @ + 1,
                                  ![t].pc = IF threads[t].i = Len(KeyRows) THEN "kb_flag" ELSE "kb_add"]
    /\ hist' = [hist EXCEPT !.bModifiedAfterFlag = @ \/ bKeyboardInitialized]
    /\ UNCHANGED <<bKeyboardInitialized, SoundexMap, bPhoneticInitialized>>
    /\ CallUnchanged

\* bKeyboardInitialized = true;
KeyboardFlag(t) ==
    /\ threads[t].pc = "kb_flag"
    /\ bKeyboardInitialized' = TRUE
    /\ GoTo(t, AfterKeyboard(t))
    /\ UNCHANGED <<KeyboardLayout, SoundexMap, bPhoneticInitialized, hist>>
    /\ CallUnchanged

\* the rest of CalculateKeyboardDistance: KeyboardLayout.Find on the table as it is
KeyboardFind(t) ==
    /\ threads[t].pc = "kb_find"
    /\ threads' = [threads EXCEPT ![t].pc = "done",
                                  ![t].ret = CalculateKeyboardDistance(A, B, KeyboardLayout)]
    /\ hist' = [hist EXCEPT !.bFoundUnbuilt = @ \/ KeyboardLayout # KeyboardLayoutFull]
    /\ UNCHANGED <<KeyboardLayout, bKeyboardInitialized, SoundexMap, bPhoneticInitialized>>
    /\ CallUnchanged

\* if (bPhoneticInitialized) return;
PhoneticCheck(t) ==
    /\ threads[t].pc = "ph_check"
    /\ GoTo(t, IF bPhoneticInitialized THEN AfterPhonetic(t) ELSE "ph_empty")
    /\ UNCHANGED <<KeyboardLayout, bKeyboardInitialized, SoundexMap, bPhoneticInitialized, hist>>
    /\ CallUnchanged

\* SoundexMap.Empty(26);
PhoneticEmpty(t) ==
    /\ threads[t].pc = "ph_empty"
    /\ SoundexMap' = EmptyMap
    /\ threads' = [threads EXCEPT ![t].pc = "ph_add", ![t].i = 1]
    /\ hist' = [hist EXCEPT !.PhoneticPopulators = @ \cup {t},
                            !.bModifiedAfterFlag = @ \/ bPhoneticInitialized]
    /\ UNCHANGED <<KeyboardLayout, bKeyboardInitialized, bPhoneticInitialized>>
    /\ CallUnchanged

\* SoundexMap.Add(...) for the letters of one digit
PhoneticAdd(t) ==
    /\ threads[t].pc = "ph_add"
    /\ SoundexMap' = AddAll(SoundexMap, SoundexMapFull, SoundexGroups[threads[t].i])
    /\ threads' = [threads EXCEPT ![t].i = @ + 1,
                                  ![t].pc = IF threads[t].i = Len(SoundexGroups)
                                            THEN "ph_flag" ELSE "ph_add"]
    /\ hist' = [hist EXCEPT !.bModifiedAfterFlag = @ \/ bPhoneticInitialized]
    /\ UNCHANGED <<KeyboardLayout, bKeyboardInitialized, bPhoneticInitialized>>
    /\ CallUnchanged

\* bPhoneticInitialized = true;
PhoneticFlag(t) ==
    /\ threads[t].pc = "ph_flag"
    /\ bPhoneticInitialized' = TRUE
    /\ GoTo(t, AfterPhonetic(t))
    /\ UNCHANGED <<KeyboardLayout, bKeyboardInitialized, SoundexMap, hist>>
    /\ CallUnchanged

\* the rest of GenerateSoundex: SoundexMap.Find on the table as it is
PhoneticFind(t) ==
    /\ threads[t].pc = "ph_find"
    /\ threads' = [threads EXCEPT ![t].pc = "done",
                                  ![t].ret = GenerateSoundex(A, SoundexMap)]
    /\ hist' = [hist EXCEPT !.bFoundUnbuilt = @ \/ SoundexMap # SoundexMapFull]
    /\ UNCHANGED <<KeyboardLayout, bKeyboardInitialized, SoundexMap, bPhoneticInitialized>>
    /\ CallUnchanged

NextThreads ==
    \E t \in Threads :
        \/ ThreadCall(t)
        \/ KeyboardCheck(t)
        \/ KeyboardEmpty(t)
        \/ KeyboardAdd(t)
        \/ KeyboardFlag(t)
        \/ KeyboardFind(t)
        \/ PhoneticCheck(t)
        \/ PhoneticEmpty(t)
        \/ PhoneticAdd(t)
        \/ PhoneticFlag(t)
        \/ PhoneticFind(t)

\* SpecThreads: threads making their first calls concurrently
SpecThreads == InitThreads /\ [][NextThreads]_vars

\* ------------------------------------------------------------------------
\* A sequence of calls on one thread
\* ------------------------------------------------------------------------
\* "ab", "A", "aaab"
SeqStrings == {<<97, 98>>, <<65>>, <<97, 97, 97, 98>>}
SeqCandidateLists == [1..2 -> SeqStrings]
SeqAlgorithms == {"Auto", "DamerauLevenshtein", "Soundex", "KeyboardDistance"}

InitSeq ==
    /\ StaticsAtStart
    /\ SingleThreaded
    /\ A = <<>>
    /\ B = <<>>
    /\ Algorithm = "Auto"
    /\ bNormalize = TRUE
    /\ Candidates = <<>>
    /\ MaxResults = 5
    /\ MinSimilarity = Rat(1, 2)
    /\ N = DefaultN
    /\ TThreadSafeCache(DefaultMaxEntries, DefaultMaxSizeBytes)
    /\ op = "none"
    /\ Result = <<>>

\* the call name(a, b, ...) returns r: the arguments are passed by const
\* reference and are after the call what they were before it
Invoke(name, a, b, alg, norm, cands, maxr, mins, r) ==
    /\ op' = name
    /\ A' = a
    /\ B' = b
    /\ Algorithm' = alg
    /\ bNormalize' = norm
    /\ Candidates' = cands
    /\ MaxResults' = maxr
    /\ MinSimilarity' = mins
    /\ Result' = r.ret
    /\ SetStatics(r.st)
    /\ UNCHANGED <<threads, hist, OutOfRangeValue, N, cacheVars>>

\* the call name(a, b, ...) ends in the failed range check of H[K]
InvokeStops(a, b, alg, norm, cands, maxr, mins) ==
    /\ op' = "stopped"
    /\ A' = a
    /\ B' = b
    /\ Algorithm' = alg
    /\ bNormalize' = norm
    /\ Candidates' = cands
    /\ MaxResults' = maxr
    /\ MinSimilarity' = mins
    /\ Result' = <<>>
    /\ UNCHANGED <<KeyboardLayout, bKeyboardInitialized, SoundexMap, bPhoneticInitialized,
                   threads, hist, OutOfRangeValue, N, cacheVars>>

\* a call's record holds the arguments it takes; the others are at rest
SeqInitialize ==
    /\ op # "stopped"
    /\ Invoke("Initialize", <<>>, <<>>, "Auto", TRUE, <<>>, 5, Rat(1, 2),
              [ret |-> <<>>, st |-> Initialize(statics)])

SeqGenerateSoundex ==
    /\ op # "stopped"
    /\ \E a \in SeqStrings :
          Invoke("GenerateSoundex", a, <<>>, "Auto", TRUE, <<>>, 5, Rat(1, 2),
                 GenerateSoundexCall(a, statics))

SeqCalculateKeyboardDistance ==
    /\ op # "stopped"
    /\ \E a \in SeqStrings, b \in SeqStrings :
          Invoke("CalculateKeyboardDistance", a, b, "Auto", TRUE, <<>>, 5, Rat(1, 2),
                 CalculateKeyboardDistanceCall(a, b, statics))

SeqGetSimilarity ==
    /\ op # "stopped"
    /\ \E a \in SeqStrings, b \in SeqStrings, alg \in SeqAlgorithms, norm \in BOOLEAN :
          \/ Invoke("GetSimilarity", a, b, alg, norm, <<>>, 5, Rat(1, 2),
                    GetSimilarity(a, b, alg, norm, statics))
          \/ /\ GetSimilarityStops(a, b, alg, norm)
             /\ InvokeStops(a, b, alg, norm, <<>>, 5, Rat(1, 2))

SeqCompareStrings ==
    /\ op # "stopped"
    /\ \E a \in SeqStrings, b \in SeqStrings, norm \in BOOLEAN :
          \/ Invoke("CompareStrings", a, b, "Auto", norm, <<>>, 5, Rat(1, 2),
                    CompareStrings(a, b, norm, statics))
          \/ /\ CompareStringsStops(a, b, norm)
             /\ InvokeStops(a, b, "Auto", norm, <<>>, 5, Rat(1, 2))

SeqFindBestMatches ==
    /\ op # "stopped"
    /\ \E a \in SeqStrings, cands \in SeqCandidateLists, alg \in SeqAlgorithms :
          \/ \E r \in FindBestMatches(a, cands, MaxResultsBound, Zero, alg, statics) :
                 Invoke("FindBestMatches", a, <<>>, alg, TRUE, cands, MaxResultsBound, Zero, r)
          \/ /\ FindBestMatchesStops(a, cands, alg)
             /\ InvokeStops(a, <<>>, alg, TRUE, cands, MaxResultsBound, Zero)

\* Between two calls the memory behind a fresh matrix H can come to hold
\* something else.
MemoryReused ==
    /\ op # "stopped"
    /\ OutOfRangeValue' \in OutOfRangeValues \ {OutOfRangeValue}
    /\ UNCHANGED <<KeyboardLayout, bKeyboardInitialized, SoundexMap, bPhoneticInitialized,
                   A, B, Algorithm, bNormalize, Candidates, MaxResults, MinSimilarity, op,
                   Result, N, threads, hist, cacheVars>>

NextSeq ==
    \/ SeqInitialize
    \/ SeqGenerateSoundex
    \/ SeqCalculateKeyboardDistance
    \/ SeqGetSimilarity
    \/ SeqCompareStrings
    \/ SeqFindBestMatches
    \/ MemoryReused

\* SpecSeq: calls made one after another, with and without Initialize()
SpecSeq == InitSeq /\ [][NextSeq]_vars

\* ------------------------------------------------------------------------
\* Threads calling Put, Get, Remove and Clear of one TThreadSafeCache
\* ------------------------------------------------------------------------
\* Every public method holds the FScopeLock on CacheMutex from its first line
\* to its return.  FCriticalSection is recursive, so the Remove that EvictLRU
\* calls takes the lock again on the thread that holds it already.
MaxEntriesBound == 3
MaxSizeBound == 2

\* the SizeBytes arguments of the unrestricted calls of Put
SizeChoices == 0..MaxSizeBound

cache == [Cache |-> Cache, CurrentSizeBytes |-> CurrentSizeBytes]

SetCache(c) ==
    /\ Cache' = c.Cache
    /\ CurrentSizeBytes' = c.CurrentSizeBytes

FuzzyUnchanged ==
    UNCHANGED <<KeyboardLayout, bKeyboardInitialized, SoundexMap, bPhoneticInitialized,
                A, B, Algorithm, bNormalize, Candidates, MaxResults, MinSimilarity, op,
                Result, threads, hist, OutOfRangeValue, N>>

InitCache ==
    /\ StaticsAtStart
    /\ threads = ThreadsIdle
    /\ hist = HistInit
    /\ OutOfRangeValue = 7
    /\ A = <<>>
    /\ B = <<>>
    /\ Algorithm = "Auto"
    /\ bNormalize = TRUE
    /\ Candidates = <<>>
    /\ MaxResults = 5
    /\ MinSimilarity = Rat(1, 2)
    /\ N = DefaultN
    /\ op = "none"
    /\ Result = <<>>
    /\ \E InMaxEntries \in 0..MaxEntriesBound, InMaxSizeBytes \in 1..MaxSizeBound :
           TThreadSafeCache(InMaxEntries, InMaxSizeBytes)

\* thread t enters a method and takes the lock
Enters(t, name, Key, SizeBytes) ==
    /\ callers[t].pc = "idle"
    /\ CacheMutex = 0
    /\ CacheMutex' = t
    /\ callers' = [callers EXCEPT ![t] = [pc |-> "locked", call |-> name, Key |-> Key,
                                          SizeBytes |-> SizeBytes, KeyToEvict |-> 0]]
    /\ UNCHANGED <<Cache, CurrentSizeBytes, MaxEntries, MaxSizeBytes>>
    /\ FuzzyUnchanged

\* thread t returns from its method, which releases the lock
Leaves(t) ==
    /\ CacheMutex' = 0
    /\ callers' = [callers EXCEPT ![t] = CallersIdle[t]]
    /\ UNCHANGED <<MaxEntries, MaxSizeBytes>>
    /\ FuzzyUnchanged

Inside(t, name, pc) ==
    /\ CacheMutex = t
    /\ callers[t].call = name
    /\ callers[t].pc = pc

CallPut(t) == \E Key \in CacheKeys, SizeBytes \in SizeChoices : Enters(t, "Put", Key, SizeBytes)
CallPutSized(t) ==
    \E Key \in CacheKeys, SizeBytes \in 1..MaxSizeBytes : Enters(t, "Put", Key, SizeBytes)
CallGet(t) == \E Key \in CacheKeys : Enters(t, "Get", Key, 0)
CallRemove(t) == \E Key \in CacheKeys : Enters(t, "Remove", Key, 0)
CallClear(t) == Enters(t, "Clear", 0, 0)

\* Put up to the return of EvictLRU, or up to the entry's construction when
\* the condition does not hold
PutEvicts(t) ==
    /\ Inside(t, "Put", "locked")
    /\ IF NeedsEviction(cache, callers[t].SizeBytes, MaxEntries, MaxSizeBytes)
           THEN \E e \in EvictLRU(cache) :
                    /\ SetCache(e.c)
                    /\ callers' = [callers EXCEPT ![t].pc = "evicted",
                                                  ![t].KeyToEvict = e.KeyToEvict]
           ELSE /\ UNCHANGED <<Cache, CurrentSizeBytes>>
                /\ callers' = [callers EXCEPT ![t].pc = "insert"]
    /\ UNCHANGED <<CacheMutex, MaxEntries, MaxSizeBytes>>
    /\ FuzzyUnchanged

\* EvictLRU returns to Put
EvictLRUReturns(t) ==
    /\ Inside(t, "Put", "evicted")
    /\ callers' = [callers EXCEPT ![t].pc = "insert", ![t].KeyToEvict = 0]
    /\ UNCHANGED <<Cache, CurrentSizeBytes, CacheMutex, MaxEntries, MaxSizeBytes>>
    /\ FuzzyUnchanged

\* the rest of Put
PutInserts(t) ==
    /\ Inside(t, "Put", "insert")
    /\ \E now \in Times : SetCache(CacheAdd(cache, callers[t].Key, callers[t].SizeBytes, now))
    /\ Leaves(t)

RunGet(t) ==
    /\ Inside(t, "Get", "locked")
    /\ \E now \in Times : SetCache(CacheGet(cache, callers[t].Key, now).c)
    /\ Leaves(t)

RunRemove(t) ==
    /\ Inside(t, "Remove", "locked")
    /\ SetCache(CacheRemove(cache, callers[t].Key))
    /\ Leaves(t)

RunClear(t) ==
    /\ Inside(t, "Clear", "locked")
    /\ SetCache(CacheClear(cache))
    /\ Leaves(t)

\* Num() and GetSizeBytes() read the fields under the lock
Num == Cardinality(DOMAIN Cache)
GetSizeBytes == CurrentSizeBytes

CacheSteps(t) ==
    \/ CallGet(t)
    \/ CallRemove(t)
    \/ CallClear(t)
    \/ PutEvicts(t)
    \/ EvictLRUReturns(t)
    \/ PutInserts(t)
    \/ RunGet(t)
    \/ RunRemove(t)
    \/ RunClear(t)

NextCache == \E t \in Threads : CallPut(t) \/ CacheSteps(t)

\* SpecCache: threads calling the methods of a cache with any arguments
SpecCache == InitCache /\ [][NextCache]_vars

NextCacheSized == \E t \in Threads : CallPutSized(t) \/ CacheSteps(t)

\* SpecCacheSized: the same, every Put with 0 < SizeBytes <= MaxSizeBytes
SpecCacheSized == InitCache /\ [][NextCacheSized]_vars

\* ------------------------------------------------------------------------
\* Properties
\* ------------------------------------------------------------------------

\* C5: GetSimilarity returns exactly 1 whenever the prepared strings are
\* equal (also when both are empty), for every algorithm; otherwise exactly 0
\* when either prepared string is empty; otherwise, with Auto, the
\* Jaro-Winkler similarity of the prepared strings.
C5_ShortCircuitOrder ==
    op = "GetSimilarity" =>
        /\ PreparedA = PreparedB => Result = One
        /\ PreparedA # PreparedB /\ (PreparedA = <<>> \/ PreparedB = <<>>) => Result = Zero
        /\ PreparedA # PreparedB /\ PreparedA # <<>> /\ PreparedB # <<>> /\ Algorithm = "Auto"
               => Result = CalculateJaroWinkler(PreparedA, PreparedB, DefaultPrefixScale)

\* two different raw strings that both normalize to the empty string score 1
C5_Witness ==
    /\ op = "GetSimilarity"
    /\ A # B
    /\ PreparedA = <<>>
    /\ PreparedB = <<>>
    /\ Result = One

\* C6: when the prepared strings are equal, CompareStrings returns the
\* perfect-match record: every normalized score is 1, every distance is 0
\* and both phonetic flags are true.
C6_PerfectMatchRecord ==
    (op = "CompareStrings" /\ PreparedA = PreparedB) =>
        /\ Result.NormalizedLevenshtein = One
        /\ Result.JaroSimilarity = One
        /\ Result.JaroWinklerSimilarity = One
        /\ Result.DiceCoefficient = One
        /\ Result.JaccardIndex = One
        /\ Result.CosineSimilarity = One
        /\ Result.KeyboardDistance = One
        /\ Result.LevenshteinDistance = 0
        /\ Result.DamerauLevenshteinDistance = 0
        /\ Result.OptimalAlignmentDistance = 0
        /\ Result.HammingDistance = 0
        /\ Result.bSoundexMatch
        /\ Result.bMetaphoneMatch

\* the statics as they are once both tables are built
StaticsBuilt == Initialize(StaticsInit)

\* C7: when the prepared strings are non-empty and different, every metric
\* field of the record returned by CompareStrings equals the corresponding
\* family function applied to the prepared strings.
C7_EveryMetricComputed ==
    (op = "CompareStrings" /\ PreparedA # PreparedB /\ PreparedA # <<>> /\ PreparedB # <<>>) =>
        /\ Result.LevenshteinDistance = CalculateLevenshtein(PreparedA, PreparedB)
        /\ Result.DamerauLevenshteinDistance = CalculateDamerauLevenshtein(PreparedA, PreparedB)
        /\ Result.OptimalAlignmentDistance = CalculateOptimalAlignment(PreparedA, PreparedB)
        /\ Result.HammingDistance = CalculateHamming(PreparedA, PreparedB)
        /\ Result.JaroSimilarity = CalculateJaro(PreparedA, PreparedB)
        /\ Result.JaroWinklerSimilarity = CalculateJaroWinkler(PreparedA, PreparedB, DefaultPrefixScale)
        /\ Result.LongestCommonSubsequence = CalculateLCS(PreparedA, PreparedB)
        /\ Result.LongestCommonSubstring = CalculateLCSS(PreparedA, PreparedB)
        /\ Result.DiceCoefficient = CalculateDice(PreparedA, PreparedB, DefaultN)
        /\ Result.JaccardIndex = CalculateJaccard(PreparedA, PreparedB, DefaultN)
        /\ Result.CosineSimilarity = CalculateCosine(PreparedA, PreparedB, DefaultN)
        /\ Result.SoundexA = GenerateSoundex(PreparedA, StaticsBuilt.SoundexMap)
        /\ Result.SoundexB = GenerateSoundex(PreparedB, StaticsBuilt.SoundexMap)
        /\ Result.bSoundexMatch = (GenerateSoundex(PreparedA, StaticsBuilt.SoundexMap)
                                     = GenerateSoundex(PreparedB, StaticsBuilt.SoundexMap))
        /\ Result.bMetaphoneMatch = MetaphoneMatch(PreparedA, PreparedB)
        /\ Result.KeyboardDistance
               = CalculateKeyboardDistance(PreparedA, PreparedB, StaticsBuilt.KeyboardLayout)
        /\ Result.bVisuallyConfusable = AreVisualConfusables(PreparedA, PreparedB)

\* the similarity scores of a record
Scores(m) ==
    {m.NormalizedLevenshtein, m.JaroSimilarity, m.JaroWinklerSimilarity, m.DiceCoefficient,
     m.JaccardIndex, m.CosineSimilarity, m.KeyboardDistance, m.BestSimilarity}

\* C8: when the prepared strings differ and at least one is empty,
\* CompareStrings returns the zero record (every similarity score 0, both
\* phonetic flags false, StringA and StringB the raw inputs); two empty
\* prepared strings give the perfect-match record instead.
C8_ZeroRecord ==
    op = "CompareStrings" =>
        /\ (PreparedA # PreparedB /\ (PreparedA = <<>> \/ PreparedB = <<>>)) =>
              /\ Scores(Result) = {Zero}
              /\ ~Result.bSoundexMatch
              /\ ~Result.bMetaphoneMatch
              /\ Result.StringA = A
              /\ Result.StringB = B
        /\ (PreparedA = <<>> /\ PreparedB = <<>>) =>
              /\ Result = PerfectMatch(NewStringMatch(A, B))
              /\ Result.NormalizedLevenshtein = One
              /\ Result.bSoundexMatch
              /\ Result.bMetaphoneMatch

\* a blank string against a string that is not blank: the raw A is kept and
\* the record is the zero record
C8_Witness ==
    /\ op = "CompareStrings"
    /\ bNormalize
    /\ A # <<>>
    /\ PreparedA = <<>>
    /\ PreparedB # <<>>
    /\ Result.StringA = A
    /\ Scores(Result) = {Zero}

\* C9: CompareStringsWithAlgo returns the CompareStrings record with only
\* BestSimilarity changed, and BestSimilarity is the chosen algorithm's own
\* score from that record (for DamerauLevenshtein: 1 - distance / the longer
\* length of the prepared strings; for Auto: the maximum of the five
\* normalized metrics).
C9_BestIsChosenScore ==
    op = "CompareStringsWithAlgo" =>
        /\ [Result EXCEPT !.BestSimilarity = Zero] = CompareStrings(A, B, bNormalize, StaticsInit).ret
        /\ Algorithm = "Levenshtein" => Result.BestSimilarity = Result.NormalizedLevenshtein
        /\ Algorithm = "DamerauLevenshtein" =>
               Result.BestSimilarity =
                   OneMinus(FloatDiv(Result.DamerauLevenshteinDistance,
                                     Max2(Len(PreparedA), Len(PreparedB))))
        /\ Algorithm = "Jaro" => Result.BestSimilarity = Result.JaroSimilarity
        /\ Algorithm = "JaroWinkler" => Result.BestSimilarity = Result.JaroWinklerSimilarity
        /\ Algorithm = "Dice" => Result.BestSimilarity = Result.DiceCoefficient
        /\ Algorithm = "Jaccard" => Result.BestSimilarity = Result.JaccardIndex
        /\ Algorithm = "Cosine" => Result.BestSimilarity = Result.CosineSimilarity
        /\ Algorithm = "Soundex" =>
               Result.BestSimilarity = (IF Result.bSoundexMatch THEN One ELSE Zero)
        /\ Algorithm = "Metaphone" =>
               Result.BestSimilarity = (IF Result.bMetaphoneMatch THEN One ELSE Zero)
        /\ Algorithm = "KeyboardDistance" => Result.BestSimilarity = Result.KeyboardDistance
        /\ Algorithm = "Auto" => Result.BestSimilarity = GetBestSimilarity(Result)

\* C10: CalculateJaro, CalculateJaroWinkler (prefix scale 0.1), CalculateDice,
\* CalculateJaccard, CalculateCosine (n = 2), CalculateKeyboardDistance,
\* GetSimilarity for every algorithm, and the NormalizedLevenshtein field of
\* CompareStrings all lie in [0, 1].
C10_SimilarityRange ==
    /\ InUnit(CalculateJaro(A, B))
    /\ InUnit(CalculateJaroWinkler(A, B, DefaultPrefixScale))
    /\ InUnit(CalculateDice(A, B, DefaultN))
    /\ InUnit(CalculateJaccard(A, B, DefaultN))
    /\ InUnit(CalculateCosine(A, B, DefaultN))
    /\ InUnit(CalculateKeyboardDistanceCall(A, B, statics).ret)
    /\ \A norm \in BOOLEAN : InUnit(CompareStrings(A, B, norm, statics).ret.NormalizedLevenshtein)
    /\ op = "GetSimilarity" => InUnit(Result)

\* C1: the list FindBestMatches returns is ordered by non-increasing
\* GetSimilarity(query, candidate, algorithm, true) score, every returned
\* string scores at least minSimilarity, and there are at most maxResults of
\* them.
C1_SortedFilteredBounded ==
    op = "FindBestMatches" =>
        /\ \A i, j \in 1..Len(Result) :
               i < j => RLe(ScoreOf(Result[j]), ScoreOf(Result[i]))
        /\ \A i \in 1..Len(Result) : RLe(MinSimilarity, ScoreOf(Result[i]))
        /\ Len(Result) <= MaxResults

\* a call that dropped a candidate below the threshold, moved a later
\* candidate in front of an earlier one and cut the list at maxResults
C1_Witness ==
    /\ op = "FindBestMatches"
    /\ Len(Candidates) = 3
    /\ MaxResults = 1
    /\ Len(Result) = 1
    /\ RLt(ScoreOf(Candidates[1]), MinSimilarity)
    /\ RLe(MinSimilarity, ScoreOf(Candidates[2]))
    /\ RLt(ScoreOf(Candidates[2]), ScoreOf(Candidates[3]))
    /\ Result[1] = Candidates[3]

\* C2: ties are broken by input order: the returned list is the image of
\* positions of the candidate list such that, of two returned positions with
\* equal scores, the earlier one comes first, and no omitted qualifying
\* position with the score of a returned one precedes it in the input.
C2_StableTieBreak ==
    op = "FindBestMatches" =>
        \E idx \in [1..Len(Result) -> 1..Len(Candidates)] :
            /\ \A i \in 1..Len(Result) : Candidates[idx[i]] = Result[i]
            /\ \A i, j \in 1..Len(Result) :
                   (i < j /\ ScoreOf(Result[i]) = ScoreOf(Result[j])) => idx[i] < idx[j]
            /\ \A k \in 1..Len(Candidates), i \in 1..Len(Result) :
                   ( /\ \A j \in 1..Len(Result) : idx[j] # k
                     /\ RLe(MinSimilarity, ScoreOf(Candidates[k]))
                     /\ ScoreOf(Candidates[k]) = ScoreOf(Result[i]) ) => idx[i] < k

\* C3: in every interleaving of the threads' first calls each table is
\* populated by at most one caller, no thread looks a key up in a table that
\* is not fully populated, and no table is modified once its initialised
\* flag is true.
C3_GuardedLazyInit ==
    /\ Cardinality(hist.KeyboardPopulators) <= 1
    /\ Cardinality(hist.PhoneticPopulators) <= 1
    /\ ~hist.bFoundUnbuilt
    /\ ~hist.bModifiedAfterFlag

\* C4: whatever calls were made before it, with or without Initialize(),
\* a call of GenerateSoundex, CalculateKeyboardDistance, GetSimilarity,
\* CompareStrings or FindBestMatches returned what the same call returns now,
\* be it at program start or once both tables are built.
C4_Pure ==
    \A st \in {StaticsInit, StaticsBuilt} :
        /\ op = "GenerateSoundex" => Result = GenerateSoundexCall(A, st).ret
        /\ op = "CalculateKeyboardDistance" =>
               Result = CalculateKeyboardDistanceCall(A, B, st).ret
        /\ op = "GetSimilarity" => Result = GetSimilarity(A, B, Algorithm, bNormalize, st).ret
        /\ op = "CompareStrings" => Result = CompareStrings(A, B, bNormalize, st).ret
        /\ op = "FindBestMatches" =>
               Result \in {r.ret : r \in FindBestMatches(A, Candidates, MaxResults,
                                                         MinSimilarity, Algorithm, st)}

\* C11: for every pair of strings, normalize flag and algorithm selector, the
\* BestSimilarity of the record CompareStringsWithAlgo returns is a finite
\* number in [0, 1].
C11_BestSimilarityRange ==
    op = "CompareStringsWithAlgo" => InUnit(Result.BestSimilarity)

\* C12: CalculateLevenshtein, CalculateDamerauLevenshtein and
\* CalculateOptimalAlignment return a value >= 0, CalculateHamming returns a
\* value >= 0 or the sentinel -1, and so does GetEditDistance with every
\* algorithm selector.
C12_DistanceRange ==
    /\ op \in {"CalculateLevenshtein", "CalculateDamerauLevenshtein",
               "CalculateOptimalAlignment"} => Result >= 0
    /\ op = "CalculateHamming" => Result >= 0 \/ Result = 0 - 1
    /\ op = "GetEditDistance" =>
           IF Algorithm = "Hamming" THEN Result >= 0 \/ Result = 0 - 1 ELSE Result >= 0

\* the four edit-distance functions
EditDistanceFunctions ==
    {"CalculateLevenshtein", "CalculateDamerauLevenshtein",
     "CalculateOptimalAlignment", "CalculateHamming"}

\* C13: for each of CalculateLevenshtein, CalculateDamerauLevenshtein,
\* CalculateOptimalAlignment and CalculateHamming: empty against empty gives
\* 0, empty against a non-empty string s gives len(s) in either argument
\* order, and identical strings give 0.
C13_EdgeCases ==
    op \in EditDistanceFunctions =>
        /\ A = <<>> /\ B = <<>> => Result = 0
        /\ A = <<>> /\ B # <<>> => Result = Len(B)
        /\ A # <<>> /\ B = <<>> => Result = Len(A)
        /\ A = B => Result = 0

\* The Damerau-Levenshtein distance of the first i characters of S and the
\* first j characters of T: the least number of insertions, deletions,
\* substitutions and transpositions of adjacent characters that turns one
\* into the other.  A transposition that ends at (i, j) swaps S[k], the last
\* character before i equal to T[j], with S[i], after the i - k - 1
\* characters between them were deleted, and before the j - l - 1 characters
\* after T[l], the last one before j equal to S[i], were inserted.
RECURSIVE TrueDistance(_, _, _, _)
TrueDistance(S, T, i, j) ==
    IF i = 0 THEN j
    ELSE IF j = 0 THEN i
    ELSE LET Cost == IF S[i] = T[j] THEN 0 ELSE 1
             Plain == Min2(Min2(TrueDistance(S, T, i - 1, j) + 1,
                                TrueDistance(S, T, i, j - 1) + 1),
                           TrueDistance(S, T, i - 1, j - 1) + Cost)
             Ks == {k \in 1..(i - 1) : S[k] = T[j]}
             Ls == {l \in 1..(j - 1) : T[l] = S[i]}
         IN  IF Ks = {} \/ Ls = {} THEN Plain
             ELSE Min2(Plain, TrueDistance(S, T, SetMax(Ks) - 1, SetMax(Ls) - 1)
                                  + (i - SetMax(Ks) - 1) + 1 + (j - SetMax(Ls) - 1))

TrueDamerauLevenshtein(S, T) == TrueDistance(S, T, Len(S), Len(T))

\* C14: CalculateDamerauLevenshtein(a, b) is the Damerau-Levenshtein distance
\* of a and b: the minimum number of single-character insertions, deletions,
\* substitutions and transpositions of adjacent characters that transforms a
\* into b.
C14_TrueDamerauLevenshtein ==
    op = "CalculateDamerauLevenshtein" => Result = TrueDamerauLevenshtein(A, B)

\* the number of positions from i on at which S and T, of equal length, differ
RECURSIVE Differing(_, _, _)
Differing(S, T, i) ==
    IF i > Len(S) THEN 0
    ELSE (IF S[i] = T[i] THEN 0 ELSE 1) + Differing(S, T, i + 1)

\* C15: CalculateHamming(a, b) returns the sentinel -1 exactly when
\* len(a) # len(b); when the lengths are equal it returns the number of
\* positions at which a and b differ (0 for two empty strings); and it
\* returns for every pair of strings.
C15_HammingSentinel ==
    /\ op = "none" => ENABLED CallCalculateHamming
    /\ op = "CalculateHamming" =>
           /\ Result = 0 - 1 <=> Len(A) # Len(B)
           /\ Len(A) = Len(B) => Result = Differing(A, B, 1)
           /\ A = <<>> /\ B = <<>> => Result = 0

\* CalculateHamming was called on two strings of length 2 that differ at both
\* positions
C15_Witness ==
    op = "CalculateHamming" /\ Len(A) = 2 /\ Len(B) = 2 /\ A[1] # B[1] /\ A[2] # B[2] /\ Result = 2

\* C16: swapping the arguments does not change the result of
\* CalculateLevenshtein, CalculateJaro, and, with n = 2, CalculateDice,
\* CalculateJaccard and CalculateCosine.
C16_Symmetry ==
    /\ op = "CalculateLevenshtein" => Result = CalculateLevenshtein(B, A)
    /\ op = "CalculateJaro" => Result = CalculateJaro(B, A)
    /\ op = "CalculateDice" /\ N = 2 => Result = CalculateDice(B, A, 2)
    /\ op = "CalculateJaccard" /\ N = 2 => Result = CalculateJaccard(B, A, 2)
    /\ op = "CalculateCosine" /\ N = 2 => Result = CalculateCosine(B, A, 2)

\* CalculateJaro was called on strings of different lengths that match in
\* part
C16_Witness ==
    op = "CalculateJaro" /\ Len(A) < Len(B) /\ RLt(Zero, Result) /\ RLt(Result, One)

\* C17: for every string s, CalculateLevenshtein(s, s) = 0, and for every
\* non-empty s and gram size n, CalculateJaro(s, s), CalculateJaroWinkler(s, s),
\* CalculateDice(s, s, n), CalculateJaccard(s, s, n) and CalculateCosine(s, s, n)
\* are 1.
C17_Identity ==
    A = B =>
        /\ op = "CalculateLevenshtein" => Result = 0
        /\ A # <<>> /\ op \in {"CalculateJaro", "CalculateJaroWinkler", "CalculateDice",
                               "CalculateJaccard", "CalculateCosine"} => Result = One

\* CalculateLevenshtein was called on a string of two characters and itself
C17_Witness ==
    op = "CalculateLevenshtein" /\ A = B /\ Len(A) = 2 /\ Result = 0

\* the length of the common leading substring of S and T, capped at Cap
CommonPrefixLen(S, T, Cap) ==
    SetMax({k \in 0..Min2(Cap, Min2(Len(S), Len(T))) : \A i \in 1..k : S[i] = T[i]})

\* C18: CalculateJaroWinkler(a, b) with the default prefix scale 0.1 returns
\* CalculateJaro(a, b) unchanged when that value is below 0.7, and otherwise
\* jaro + p * 0.1 * (1 - jaro), p being the length of the common leading
\* substring of a and b capped at 4; so CalculateJaroWinkler(a, b) is never
\* below CalculateJaro(a, b).
C18_JaroWinklerFormula ==
    op = "CalculateJaroWinkler" =>
        /\ RLt(CalculateJaro(A, B), Rat(7, 10)) => Result = CalculateJaro(A, B)
        /\ ~RLt(CalculateJaro(A, B), Rat(7, 10)) =>
               Result = RAdd(CalculateJaro(A, B),
                             RMul(Rat(CommonPrefixLen(A, B, 4), 10),
                                  RSub(One, CalculateJaro(A, B))))
        /\ RLe(CalculateJaro(A, B), Result)

\* CalculateJaroWinkler was called on two different strings that share their
\* first five characters, and boosted their Jaro score
C18_Witness ==
    /\ op = "CalculateJaroWinkler"
    /\ Len(A) >= 5 /\ Len(B) >= 5 /\ A # B
    /\ \A i \in 1..5 : A[i] = B[i]
    /\ RLt(CalculateJaro(A, B), Result)

\* C19: GenerateSoundex(s) has exactly 4 characters for every non-empty s,
\* its first character is the uppercased first character of s, and
\* GenerateSoundex("") is "0000".
C19_SoundexFormat ==
    op = "GenerateSoundex" =>
        /\ A # <<>> =>
               /\ Len(Result) = 4
               /\ Result[1] = (IF A[1] \in 97..122 THEN A[1] - 32 ELSE A[1])
        /\ A = <<>> => Result = <<48, 48, 48, 48>>

\* GenerateSoundex was called on five characters that start with a lowercase
\* letter and hold more codes than the three the result has room for
C19_Witness ==
    /\ op = "GenerateSoundex"
    /\ Len(A) = 5 /\ A[1] \in 97..122
    /\ \A i \in 2..5 : ToUpperChar(A[i]) \in DOMAIN SoundexMapFull
    /\ \A i \in 2..4 : SoundexMapFull[ToUpperChar(A[i])] # SoundexMapFull[ToUpperChar(A[i + 1])]
    /\ Len(Result) = 4

\* Upper[i] and Upper[i + 2] are consonants of one Soundex digit class with
\* an unmapped letter between them, and no character between the first
\* character and Upper[i] has a code
SeparatedPairAt(Upper, i) ==
    /\ i + 2 <= Len(Upper)
    /\ \A k \in 2..(i - 1) : Upper[k] \notin DOMAIN SoundexMapFull
    /\ Upper[i] \in DOMAIN SoundexMapFull
    /\ Upper[i + 1] \in UnmappedLetters
    /\ Upper[i + 2] \in DOMAIN SoundexMapFull
    /\ SoundexMapFull[Upper[i]] = SoundexMapFull[Upper[i + 2]]

\* C20: in GenerateSoundex the unmapped letters A, E, I, O, U, H, W, Y act as
\* separators: when two consonants of the same Soundex digit class are
\* separated by one of these letters, both consonants are encoded.
C20_UnmappedLettersSeparate ==
    op = "GenerateSoundex" =>
        \A i \in 2..(Len(A) - 2) :
            SeparatedPairAt(ToUpper(A), i) =>
                /\ Result[2] = SoundexMapFull[ToUpper(A)[i]]
                /\ Result[3] = SoundexMapFull[ToUpper(A)[i + 2]]

\* C21: GenerateNGrams(source, N) for N >= 1: the sum of all gram counts
\* equals TotalGrams; when len(source) >= N, TotalGrams = len(source) - N + 1
\* and every key is a length-N substring of source; when len(source) < N the
\* set is exactly one gram equal to the whole source, with count 1, and
\* TotalGrams = 1.
C21_NGramSet ==
    op = "GenerateNGrams" =>
        /\ SumOver(Result.Grams, DOMAIN Result.Grams) = Result.TotalGrams
        /\ Len(A) >= N =>
               /\ Result.TotalGrams = Len(A) - N + 1
               /\ \A g \in DOMAIN Result.Grams :
                      Len(g) = N /\ \E i \in 1..(Len(A) - N + 1) : SubSeq(A, i, i + N - 1) = g
        /\ Len(A) < N =>
               /\ DOMAIN Result.Grams = {A}
               /\ Result.Grams[A] = 1
               /\ Result.TotalGrams = 1

\* GenerateNGrams was called with N = 2 on a string of four characters in
\* which one bigram occurs twice
C21_Witness ==
    /\ op = "GenerateNGrams" /\ N = 2 /\ Len(A) = 4
    /\ \E g \in DOMAIN Result.Grams : Result.Grams[g] = 2

\* the count of gram g in the gram set G, 0 when G does not hold it
CountIn(G, g) == IF g \in DOMAIN G.Grams THEN G.Grams[g] ELSE 0

\* the size of the multiset intersection of two gram sets
MultisetIntersection(GA, GB) ==
    LET Keys == DOMAIN GA.Grams \cup DOMAIN GB.Grams
    IN  SumOver([g \in Keys |-> Min2(CountIn(GA, g), CountIn(GB, g))], Keys)

\* C22: CalculateDice(a, b, n) returns 0 if either string is empty, 1 if the
\* strings are identical and non-empty, and otherwise
\* 2 * I / (TotalGrams(a) + TotalGrams(b)), I being the size of the multiset
\* intersection of the grams; dice("night", "nacht", 2) = 0.25.
C22_Dice ==
    op = "CalculateDice" =>
        /\ A = <<>> \/ B = <<>> => Result = Zero
        /\ A = B /\ A # <<>> => Result = One
        /\ A # <<>> /\ B # <<>> /\ A # B =>
               Result = Rat(2 * MultisetIntersection(GenerateNGrams(A, N), GenerateNGrams(B, N)),
                            GenerateNGrams(A, N).TotalGrams + GenerateNGrams(B, N).TotalGrams)
        /\ A = <<110, 105, 103, 104, 116>> /\ B = <<110, 97, 99, 104, 116>> /\ N = 2 =>
               Result = Rat(1, 4)

\* CalculateDice was called on two different strings that share a gram
\* occurring twice in each
C22_Witness ==
    /\ op = "CalculateDice" /\ A # B
    /\ \E g \in DOMAIN GenerateNGrams(A, N).Grams \cap DOMAIN GenerateNGrams(B, N).Grams :
           GenerateNGrams(A, N).Grams[g] >= 2 /\ GenerateNGrams(B, N).Grams[g] >= 2

\* the distinct grams of size n of S: its substrings of length n, or S itself
\* when it is shorter than n
DistinctGrams(S, n) ==
    IF Len(S) < n THEN {S}
    ELSE {SubSeq(S, i, i + n - 1) : i \in 1..(Len(S) - n + 1)}

\* C25: for non-empty, non-identical strings CalculateJaccard(a, b, n) is the
\* number of distinct grams occurring in both a and b divided by the number
\* of distinct grams occurring in a or b; gram multiplicities are ignored.
C25_JaccardSets ==
    op = "CalculateJaccard" /\ A # <<>> /\ B # <<>> /\ A # B =>
        Result = Rat(Cardinality(DistinctGrams(A, N) \cap DistinctGrams(B, N)),
                     Cardinality(DistinctGrams(A, N) \cup DistinctGrams(B, N)))

\* CalculateJaccard was called on two different strings that share a gram
\* which the first of them repeats
C25_Witness ==
    /\ op = "CalculateJaccard" /\ A # B /\ A # <<>> /\ B # <<>>
    /\ \E g \in DistinctGrams(A, N) \cap DistinctGrams(B, N) :
           GenerateNGrams(A, N).Grams[g] >= 2
    /\ RLt(Zero, Result) /\ RLt(Result, One)

\* The restricted (optimal string alignment) distance of the first i
\* characters of S and the first j characters of T: insertions, deletions and
\* substitutions cost 1 each, and the last two characters of both prefixes,
\* when they are each other's reverse, can be swapped for 1 with nothing else
\* edited between them.
RECURSIVE RestrictedDistance(_, _, _, _)
RestrictedDistance(S, T, i, j) ==
    IF i = 0 THEN j
    ELSE IF j = 0 THEN i
    ELSE LET Plain == Min2(Min2(RestrictedDistance(S, T, i - 1, j) + 1,
                                RestrictedDistance(S, T, i, j - 1) + 1),
                           RestrictedDistance(S, T, i - 1, j - 1)
                               + (IF S[i] = T[j] THEN 0 ELSE 1))
         IN  IF i > 1 /\ j > 1 /\ S[i] = T[j - 1] /\ S[i - 1] = T[j]
             THEN Min2(Plain, RestrictedDistance(S, T, i - 2, j - 2) + 1)
             ELSE Plain

\* C23: CalculateOptimalAlignment(a, b) is the restricted (optimal string
\* alignment) edit distance of a and b: the minimum cost using insertions,
\* deletions, substitutions and swaps of two adjacent characters, each swap
\* costing 1 and no substring being edited more than once.
C23_OptimalAlignment ==
    op = "CalculateOptimalAlignment" => Result = RestrictedDistance(A, B, Len(A), Len(B))

\* CalculateOptimalAlignment was called on a pair whose unrestricted
\* Damerau-Levenshtein distance is smaller than the restricted one
C23_Witness ==
    op = "CalculateOptimalAlignment" /\ TrueDamerauLevenshtein(A, B) < Result

\* What the characters of Upper after the first stand for, in order: the
\* digit of a mapped letter, 0 for a character that is no letter (it resets
\* the last-code tracker); unmapped letters stand for nothing.
SoundexTokens(Upper) ==
    LET Rest == SubSeq(Upper, 2, Len(Upper))
        Token(c) == IF c \in DOMAIN SoundexMapFull THEN SoundexMapFull[c]
                    ELSE IF IsAlpha(c) THEN 0 - 1 ELSE 0
        All == [k \in 1..Len(Rest) |-> Token(Rest[k])]
        NotSkipped(t) == t # 0 - 1
    IN  SelectSeq(All, NotSkipped)

\* the digits retained: those not directly preceded by the same digit
RetainedCodes(Tokens) ==
    Pick(Tokens,
         {k \in 1..Len(Tokens) : Tokens[k] # 0 /\ (k = 1 \/ Tokens[k - 1] # Tokens[k])}, 1)

\* the first character, up to three retained digits, and '0' up to 4 characters
ExpectedSoundex(Upper) ==
    LET Codes == <<Upper[1]>> \o RetainedCodes(SoundexTokens(Upper))
    IN  [k \in 1..4 |-> IF k <= Len(Codes) THEN Codes[k] ELSE 48]

C26_DistanceOrdering ==
    /\ op = "CalculateDamerauLevenshtein" =>
           /\ Abs(Len(A) - Len(B)) <= Result
           /\ Result <= CalculateOptimalAlignment(A, B)
    /\ op = "CalculateOptimalAlignment" => Result <= CalculateLevenshtein(A, B)
    /\ op = "CalculateLevenshtein" =>
           /\ Result <= Max2(Len(A), Len(B))
           /\ Len(A) = Len(B) => Result <= CalculateHamming(A, B)

\* C27: the fast path and the full path agree: for every pair of strings,
\* every normalize flag and every algorithm selector other than Auto,
\* GetSimilarity(a, b, algorithm, normalize) equals the BestSimilarity of
\* CompareStringsWithAlgo(a, b, algorithm, normalize), also when
\* normalization changes the length of a string
C27_FastPathAgrees ==
    (op = "GetSimilarity" /\ Algorithm # "Auto") =>
        Result = CompareStringsWithAlgo(A, B, Algorithm, bNormalize, statics).ret.BestSimilarity

\* how often the string x occurs in the array s
Occurrences(s, x) == Cardinality({i \in DOMAIN s : s[i] = x})

\* the positions of the candidates that pass the threshold
Qualifying == {i \in DOMAIN Candidates : RLe(MinSimilarity, ScoreOf(Candidates[i]))}

\* C28: FindBestMatches returns exactly the top of the qualifying
\* candidates: for maxResults >= 0 the result has min(maxResults, number of
\* candidates with score >= minSimilarity) entries, every returned string is
\* an element of Candidates and occurs at most as often as it does there, and
\* no omitted qualifying candidate scores strictly higher than a returned one
C28_TopOfQualifying ==
    (op = "FindBestMatches" /\ MaxResults >= 0) =>
        /\ Len(Result) = Min2(MaxResults, Cardinality(Qualifying))
        /\ \A k \in DOMAIN Result :
               /\ Occurrences(Candidates, Result[k]) >= 1
               /\ Occurrences(Result, Result[k]) <= Occurrences(Candidates, Result[k])
        /\ \A i \in Qualifying :
               Occurrences(Result, Candidates[i]) <
                   Cardinality({j \in Qualifying : Candidates[j] = Candidates[i]})
               => \A k \in DOMAIN Result :
                      ~RLt(ScoreOf(Result[k]), ScoreOf(Candidates[i]))

\* a call with a duplicated candidate, both copies returned, and a
\* qualifying candidate of lower score cut off by maxResults
C28_Witness ==
    /\ op = "FindBestMatches"
    /\ Len(Candidates) = 3
    /\ Candidates[1] = Candidates[3]
    /\ Candidates[2] # Candidates[1]
    /\ Qualifying = {1, 2, 3}
    /\ RLt(ScoreOf(Candidates[2]), ScoreOf(Candidates[1]))
    /\ MaxResults = 2
    /\ Result = <<Candidates[1], Candidates[1]>>

\* C29: for a cache built with MaxEntries >= 1, after any sequence and any
\* interleaving across threads of Put, Get, Remove and Clear, Num() is at most
\* MaxEntries, and a Put into a full cache removes at most one entry before
\* it inserts
C29_EntryBound ==
    /\ []((MaxEntries >= 1 /\ CacheMutex = 0) => Num <= MaxEntries)
    /\ [][\A t \in Threads :
              Inside(t, "Put", "locked") =>
                  Cardinality(DOMAIN Cache \ DOMAIN Cache') <= 1]_vars

\* a Put of a new key into a full cache, at the return of EvictLRU: the
\* oldest entry is gone and the new one is about to be inserted
C29_Witness ==
    \E t \in Threads :
        /\ Inside(t, "Put", "evicted")
        /\ MaxEntries >= 2
        /\ Num = MaxEntries - 1
        /\ callers[t].Key \notin DOMAIN Cache
        /\ callers[t].KeyToEvict # callers[t].Key

\* the sum of the SizeBytes of the entries stored
StoredSizeBytes == SumOver([k \in DOMAIN Cache |-> Cache[k].SizeBytes], DOMAIN Cache)

\* C30: when every Put passes 0 < SizeBytes <= MaxSizeBytes, after any
\* sequence of Put, Get, Remove and Clear GetSizeBytes() equals the sum of the
\* SizeBytes of the entries stored and never exceeds MaxSizeBytes
C30_SizeBound ==
    CacheMutex = 0 =>
        /\ GetSizeBytes = StoredSizeBytes
        /\ GetSizeBytes <= MaxSizeBytes

====
